---- MODULE Spec2Model ----
(***************************************************************************)
(* Model of the record-production and channel-lifecycle subsystem of       *)
(* cdrgenerator: one output Channel (package output) with its Generator    *)
(* (package generator), its pacing Ticker, its recovery configuration      *)
(* (package config) and its transport (the serial.Port interface).         *)
(*                                                                         *)
(* The transport is modelled through the serial.Port interface the Channel *)
(* holds: Write may fail, IsOpen may start to report false while the       *)
(* worker runs, and serial.Open may fail or succeed.  Durations are kept   *)
(* in whole seconds (time.Duration(sec) * time.Second is a fixed scaling). *)
(***************************************************************************)
EXTENDS Integers, Sequences, FiniteSets, TLC

(* ---------------------------------------------------------------- bounds *)

\* Largest number of records a replay sample file holds in the model.
MaxRecords == 2

\* Number of times the pacing ticker fires in one run of the model.
MaxTicks == 4

\* Largest reconnect_delay_sec / max_reconnect_delay_sec written in the
\* configuration file (0 stands for "not set").
MaxCfgDelay == 2

(* ------------------------------------------------------------- constants *)

\* config.applyDefaults: default of recovery.reconnect_delay_sec
DefaultReconnectDelaySec == 5

\* config.applyDefaults: default of recovery.max_reconnect_delay_sec
DefaultMaxReconnectDelaySec == 300

\* NewTicker: the buffer of Ticker.C, make(chan time.Time, 1)
TickerBuffer == 1

\* NewGenerationContext: the CallNumber a context starts from
FirstCallNumber == 10000000

\* time.Minute, in milliseconds (durations of the rate limiter are counted in
\* milliseconds)
Minute == 60000

\* rand.Float64 draws u = k / RandSteps for k in 0 .. RandSteps - 1, so u is
\* in [0, 1)
RandSteps == 4

\* NextInterval calls followed on one rate limiter
MaxCalls == 2

\* enabled or disabled endpoints in the configuration the Manager is given
NumPorts == 2

\* distinct format instances handed to Register
MaxFormats == 2

\* Register calls followed on the registry
MaxRegisters == 3

\* largest sequence id (sysident) of a row of a sample file
MaxSysIdent == 2

\* GenerateRecord calls followed on one GenerationContext
MaxGenerated == 2

\* ticks handled by the Manager's channels altogether
MaxMgrTicks == 2

StateInitializing == "initializing"
StateRunning == "running"
StatePaused == "paused"
StateReconnecting == "reconnecting"
StateStopped == "stopped"
StateError == "error"

ChannelState ==
    {StateInitializing, StateRunning, StatePaused, StateReconnecting,
     StateStopped, StateError}

ModeReplay == "replay"
ModeSynthetic == "synthetic"

Min(a, b) == IF a < b THEN a ELSE b

(* ----------------------------------------------------------------- state *)

VARIABLES
    state,        \* Channel.state
    stats,        \* Channel.stats: RecordsSent, BytesSent, Errors, LastError
    port,         \* Channel.port: "nil", or what its IsOpen reports: "open" / "closed"
    stopCh,       \* Channel.stopCh: TRUE once closed
    ctxDone,      \* the context handed to Start is cancelled
    startRet,     \* Channel.Start: "none" (not called), "ok", "err" (what it returned)
    stopPc,       \* Channel.Stop: "idle", "waiting" (in wg.Wait), "returned"
    wpc,          \* the worker goroutine (outputLoop): "none", "select",
                  \* "rc_check", "rc_sleep", "exited", "panicked"
    tickC,        \* Ticker.C, a channel with a buffer of one: 0 or 1 pending tick
    ticksFired,   \* how often the ticker has fired
    gen,          \* Generator: mode, records (their number), recordIndex, loop, callCounter
    genCalls,     \* number of NextRecord calls made
    lastRecord,   \* what the last NextRecord call returned
    recovery,     \* config.RecoveryConfig after Load
    delay,        \* reconnect's local variable delay
    waited,       \* a reopen attempt of the current reconnect procedure has failed
    prevWait,     \* the delay waited before that failed attempt
    prevState,    \* Channel.state before its last change
    stopAt,       \* Channel.state when Stop was called ("" before)
    flushErr,     \* the last sendNextRecord call had its port.Flush fail
    rl,           \* a RateLimiter on its own: callsPerMinute, jitterPercent,
                  \* the NextInterval calls made, the last draw and result
    pipe,         \* a started channel followed call by call: the ticker's
                  \* buffer, the sendNextRecord calls under way, the records
                  \* that reached the transport (by NextRecord call number)
    mgr,          \* a Manager with its process: the endpoints of its
                  \* configuration, the channel built for each, m.channels,
                  \* where Start and Stop are, the context, the process
    reg,          \* package format's registry with the Register calls made
                  \* on it and what the last one was given and returned
    fm,           \* a format handler at work: the rows of a sample file and
                  \* what ParseRecords made of them, or a GenerationContext
                  \* and the record GenerateRecord built last
    snap,         \* the statistics of the Manager's channels with their
                  \* statsMutex, the workers inside sendNextRecord and
                  \* handleError, and a caller inside Manager.GetStats
    again,        \* the calls of Channel.Stop made after the first one
    twin          \* two synthetic generators, each with its own
                  \* GenerationContext and random source

chanVars ==
    <<state, stats, port, stopCh, ctxDone, startRet, stopPc, wpc, tickC,
      ticksFired, gen, genCalls, lastRecord, recovery, delay, waited,
      prevWait, prevState, stopAt, flushErr>>

\* the variables the channel's actions leave alone
aside == <<rl, pipe, mgr, reg, fm, snap, again, twin>>

vars == <<chanVars, aside>>

(* ---------------------------------------------------------------- config *)

\* config.Config.applyDefaults, the recovery part
applyDefaults(raw) ==
    [ReconnectDelaySec |->
        IF raw.ReconnectDelaySec = 0 THEN DefaultReconnectDelaySec
        ELSE raw.ReconnectDelaySec,
     MaxReconnectDelaySec |->
        IF raw.MaxReconnectDelaySec = 0 THEN DefaultMaxReconnectDelaySec
        ELSE raw.MaxReconnectDelaySec,
     ExponentialBackoff |-> raw.ExponentialBackoff]

\* config.Validate, the recovery part
Validate(c) == c.ReconnectDelaySec >= 1

\* the recovery sections a configuration file of the model may hold: whole
\* seconds from 0 (not set) up, far below the range where a time.Duration
\* (int64 nanoseconds) overflows
RawRecovery ==
    [ReconnectDelaySec : 0..MaxCfgDelay,
     MaxReconnectDelaySec : 0..MaxCfgDelay,
     ExponentialBackoff : BOOLEAN]

\* config.Load followed by config.Validate, as main does
LoadedRecovery == {c \in {applyDefaults(r) : r \in RawRecovery} : Validate(c)}

GetReconnectDelay(c) == c.ReconnectDelaySec

GetMaxReconnectDelay(c) == c.MaxReconnectDelaySec

(* ------------------------------------------------------------- generator *)

\* generator.New: the generators a port configuration can build
NewGenerators ==
    {[mode |-> ModeReplay, records |-> n, recordIndex |-> 0, loop |-> l,
      callCounter |-> 0] : n \in 1..MaxRecords, l \in BOOLEAN}
    \cup
    {[mode |-> ModeSynthetic, records |-> 0, recordIndex |-> 0,
      loop |-> FALSE, callCounter |-> 0]}

NoRecord == [kind |-> "none"]
OkRecord(i) == [kind |-> "ok", rec |-> i]
ErrRecord(msg) == [kind |-> "err", msg |-> msg]
PanicRecord == [kind |-> "panic"]

\* nextReplayRecord with the end test written '>' for '>=': the cursor is
\* not reset when it reaches the end
nextReplayRecord_LateReset(g) ==
    IF g.records = 0 THEN <<g, ErrRecord("no records available")>>
    ELSE IF g.recordIndex >= g.records THEN <<g, PanicRecord>>
    ELSE LET record == g.recordIndex
             idx == g.recordIndex + 1
         IN  IF idx > g.records
             THEN IF g.loop
                  THEN <<[g EXCEPT !.recordIndex = 0], OkRecord(record)>>
                  ELSE <<[g EXCEPT !.recordIndex = idx],
                         ErrRecord("end of sample file reached")>>
             ELSE <<[g EXCEPT !.recordIndex = idx], OkRecord(record)>>

\* Generator.nextReplayRecord: <<generator after the call, result>>
nextReplayRecord(g) ==
    IF g.records = 0 THEN <<g, ErrRecord("no records available")>>
    ELSE IF g.recordIndex >= g.records
    THEN \* g.records[g.recordIndex]: index out of range, a run-time panic
         <<g, PanicRecord>>
    ELSE LET record == g.recordIndex
             idx == g.recordIndex + 1
         IN  IF idx >= g.records
             THEN IF g.loop
                  THEN <<[g EXCEPT !.recordIndex = 0], OkRecord(record)>>
                  ELSE <<[g EXCEPT !.recordIndex = idx],
                         ErrRecord("end of sample file reached")>>
             ELSE <<[g EXCEPT !.recordIndex = idx], OkRecord(record)>>

\* Generator.nextSyntheticRecord: the format's GenerateRecord advances the
\* context's call counter and never fails
nextSyntheticRecord(g) ==
    <<[g EXCEPT !.callCounter = g.callCounter + 1], OkRecord(g.callCounter)>>

\* Generator.NextRecord
NextRecord(g) ==
    IF g.mode = ModeReplay THEN nextReplayRecord(g) ELSE nextSyntheticRecord(g)

\* CDRRecord.Output: the number of bytes of a record's wire form (every line
\* and its terminator); the sample data of the model gives record i
\* i + 1 bytes
OutputLen(rec) == rec + 1

(* --------------------------------------------------------------- channel *)

setState(s) ==
    /\ state' = s
    /\ prevState' = IF s = state THEN prevState ELSE state

\* NewChannel for generator g and recovery configuration rc
NewChannel(g, rc) ==
    /\ state = StateInitializing
    /\ prevState = StateInitializing
    /\ stats = [RecordsSent |-> 0, BytesSent |-> 0, Errors |-> 0, LastError |-> ""]
    /\ port = "nil"
    /\ stopCh = FALSE
    /\ ctxDone = FALSE
    /\ startRet = "none"
    /\ stopPc = "idle"
    /\ wpc = "none"
    /\ tickC = 0
    /\ ticksFired = 0
    /\ gen = g
    /\ genCalls = 0
    /\ lastRecord = NoRecord
    /\ recovery = rc
    /\ delay = 0
    /\ waited = FALSE
    /\ prevWait = 0
    /\ stopAt = ""
    /\ flushErr = FALSE

\* the parked channel of the specifications that follow something else
ParkedChannel ==
    NewChannel(CHOOSE g \in NewGenerators : g.mode = ModeSynthetic,
               CHOOSE rc \in LoadedRecovery : TRUE)

\* no rate limiter is followed on its own
NoLimiter ==
    [callsPerMinute |-> [num |-> 0, den |-> 1], jitterPercent |-> 0,
     calls |-> 0, draw |-> 0, result |-> [kind |-> "none"]]

\* no channel is followed call by call
NoPipe ==
    [tick |-> 0, fired |-> 0, calls |-> 0, sends |-> {}, wire |-> <<>>,
     portOpen |-> FALSE, stopCh |-> TRUE, exited |-> TRUE]

\* a channel of the Manager before NewChannel has built it
NoChannel ==
    [state |-> StateInitializing,
     stats |-> [RecordsSent |-> 0, BytesSent |-> 0, Errors |-> 0, LastError |-> ""],
     port |-> "nil", stopCh |-> FALSE, stopPc |-> "idle", wpc |-> "none",
     startRet |-> "none",
     gen |-> CHOOSE g \in NewGenerators : g.mode = ModeSynthetic]

\* no Manager is followed
NoManager ==
    [pc |-> "none", idx |-> 1, cfg |-> <<>>, ch |-> <<>>, channels |-> {},
     startRet |-> "none", ctxDone |-> FALSE, ticks |-> 0, crashed |-> FALSE]

\* the registry is not followed
NoRegistry ==
    [registry |-> <<>>, n |-> 0, arg |-> [name |-> "", inst |-> 0],
     ret |-> "none"]

\* no format handler is followed
NoFormat == [mode |-> "none"]

\* no caller of Manager.GetStats is followed
NoReader == [pc |-> "none"]

\* Channel.Stop is called once
NoSecondStop == [calls |-> 0, ret |-> "none"]

\* no pair of generators is followed
NoTwins == [pc |-> "none"]

\* NewChannel (with generator.New and config.Load before it)
Init ==
    /\ \E g \in NewGenerators, rc \in LoadedRecovery : NewChannel(g, rc)
    /\ rl = NoLimiter
    /\ pipe = NoPipe
    /\ mgr = NoManager
    /\ reg = NoRegistry
    /\ fm = NoFormat
    /\ snap = NoReader
    /\ again = NoSecondStop
    /\ twin = NoTwins

\* the process is alive: a panic in the worker goroutine ends the process
Alive == wpc # "panicked"

\* Start that starts the output loop whatever openPort answered
StartChannel_LoopOnFailure(openOk) ==
    /\ port' = IF openOk THEN "open" ELSE port
    /\ setState(IF openOk THEN StateRunning ELSE StateError)
    /\ wpc' = "select"
    /\ startRet' = IF openOk THEN "ok" ELSE "err"

\* Channel.Start: openOk is what serial.Open answers
StartChannel(openOk) ==
    IF openOk
    THEN /\ port' = "open"
         /\ setState(StateRunning)
         /\ wpc' = "select"
         /\ startRet' = "ok"
    ELSE /\ port' = port
         /\ setState(StateError)
         /\ wpc' = wpc
         /\ startRet' = "err"

Start ==
    /\ Alive
    /\ UNCHANGED aside
    /\ stopAt' = stopAt
    /\ flushErr' = flushErr
    /\ startRet = "none"
    /\ \E openOk \in BOOLEAN : StartChannel(openOk)
    /\ UNCHANGED <<stats, stopCh, ctxDone, stopPc, tickC, ticksFired, gen,
                   genCalls, lastRecord, recovery, delay, waited, prevWait>>

\* sendNextRecord with "c.stats.BytesSent = int64(n)" for "+="
sendNextRecord_BytesAssigned(g, st, p, writeOk, flushOk) ==
    LET r == NextRecord(g)
        res == r[2]
    IN  IF res.kind = "panic"
        THEN [gen |-> r[1], stats |-> st, res |-> res, err |-> "panic",
              flushed |-> "none"]
        ELSE IF res.kind = "err"
        THEN [gen |-> r[1], stats |-> st, res |-> res,
              err |-> "failed to get next record", flushed |-> "none"]
        ELSE IF p # "open" \/ ~writeOk
        THEN [gen |-> r[1], stats |-> st, res |-> res,
              err |-> "failed to write to port", flushed |-> "none"]
        ELSE [gen |-> r[1],
              stats |-> [st EXCEPT !.RecordsSent = @ + 1,
                                   !.BytesSent = OutputLen(res.rec)],
              res |-> res, err |-> "",
              flushed |-> IF flushOk THEN "ok" ELSE "err"]

\* sendNextRecord that returns the error of port.Flush
sendNextRecord_FlushFails(g, st, p, writeOk, flushOk) ==
    LET r == NextRecord(g)
        res == r[2]
    IN  IF res.kind = "panic"
        THEN [gen |-> r[1], stats |-> st, res |-> res, err |-> "panic",
              flushed |-> "none"]
        ELSE IF res.kind = "err"
        THEN [gen |-> r[1], stats |-> st, res |-> res,
              err |-> "failed to get next record", flushed |-> "none"]
        ELSE IF p # "open" \/ ~writeOk
        THEN [gen |-> r[1], stats |-> st, res |-> res,
              err |-> "failed to write to port", flushed |-> "none"]
        ELSE IF ~flushOk
        THEN [gen |-> r[1], stats |-> st, res |-> res,
              err |-> "failed to flush port", flushed |-> "err"]
        ELSE [gen |-> r[1],
              stats |-> [st EXCEPT !.RecordsSent = @ + 1,
                                   !.BytesSent = @ + OutputLen(res.rec)],
              res |-> res, err |-> "", flushed |-> "ok"]

\* Channel.sendNextRecord: writeOk is what the transport's Write answers on
\* an open port, flushOk what its Flush answers after a write.  The result:
\* the generator and the statistics after the call, what NextRecord
\* returned, the error returned ("" for nil), and what became of the flush
\* ("none" when the call did not get to it); a failed flush is logged only
sendNextRecord(g, st, p, writeOk, flushOk) ==
    LET r == NextRecord(g)
        res == r[2]
    IN  IF res.kind = "panic"
        THEN [gen |-> r[1], stats |-> st, res |-> res, err |-> "panic",
              flushed |-> "none"]
        ELSE IF res.kind = "err"
        THEN [gen |-> r[1], stats |-> st, res |-> res,
              err |-> "failed to get next record", flushed |-> "none"]
        ELSE IF p # "open" \/ ~writeOk
        THEN [gen |-> r[1], stats |-> st, res |-> res,
              err |-> "failed to write to port", flushed |-> "none"]
        ELSE [gen |-> r[1],
              stats |-> [st EXCEPT !.RecordsSent = @ + 1,
                                   !.BytesSent = @ + OutputLen(res.rec)],
              res |-> res, err |-> "",
              flushed |-> IF flushOk THEN "ok" ELSE "err"]

\* Channel.handleError, the statistics
handleError(st, err) == [st EXCEPT !.Errors = @ + 1, !.LastError = err]

\* handleError that reconnects on every error
NeedReconnect_Always(p) == TRUE

\* Channel.handleError, its test "if !c.port.IsOpen()"
NeedReconnect(p) == p # "open"

\* reconnect that announces itself with the unused state constant
reconnectEnter_Paused ==
    /\ setState(StatePaused)
    /\ delay' = GetReconnectDelay(recovery)
    /\ waited' = FALSE
    /\ prevWait' = 0
    /\ wpc' = "rc_check"

\* Channel.reconnect up to its loop
reconnectEnter ==
    /\ setState(StateReconnecting)
    /\ delay' = GetReconnectDelay(recovery)
    /\ waited' = FALSE
    /\ prevWait' = 0
    /\ wpc' = "rc_check"

\* Channel.reconnect returns: its locals are gone
reconnectReturn ==
    /\ delay' = 0
    /\ waited' = FALSE
    /\ prevWait' = 0

\* Channel.outputLoop, case <-ticker.C; closes: the transport closes under
\* the call between its Write and its Flush, which then fails
OutputLoopTick ==
    /\ Alive
    /\ UNCHANGED aside
    /\ stopAt' = stopAt
    /\ wpc = "select"
    /\ tickC = 1
    /\ tickC' = 0
    /\ \E writeOk \in BOOLEAN, flushOk \in BOOLEAN, closes \in BOOLEAN :
         LET r == sendNextRecord(gen, stats, port, writeOk, flushOk)
         IN  /\ gen' = r.gen
             /\ flushErr' = (r.flushed = "err")
             /\ port' = IF closes /\ r.flushed = "err" THEN "closed" ELSE port
             /\ genCalls' = genCalls + 1
             /\ lastRecord' = r.res
             /\ IF r.err = "panic"
                THEN /\ wpc' = "panicked"
                     /\ UNCHANGED <<stats, state, prevState, delay, waited, prevWait>>
                ELSE IF r.err = ""
                THEN /\ stats' = r.stats
                     /\ UNCHANGED <<wpc, state, prevState, delay, waited, prevWait>>
                ELSE /\ stats' = handleError(r.stats, r.err)
                     /\ IF NeedReconnect(port)
                        THEN reconnectEnter
                        ELSE UNCHANGED <<wpc, state, prevState, delay, waited, prevWait>>
    /\ UNCHANGED <<stopCh, ctxDone, startRet, stopPc, ticksFired, recovery>>

\* Channel.outputLoop, case <-ctx.Done() and case <-c.stopCh, with the
\* deferred ticker.Stop() and wg.Done()
OutputLoopExit ==
    /\ Alive
    /\ UNCHANGED aside
    /\ stopAt' = stopAt
    /\ flushErr' = flushErr
    /\ wpc = "select"
    /\ ctxDone \/ stopCh
    /\ wpc' = "exited"
    /\ UNCHANGED <<state, stats, port, stopCh, ctxDone, startRet, stopPc, tickC,
                   ticksFired, gen, genCalls, lastRecord, recovery, delay,
                   waited, prevWait, prevState>>

\* the top of reconnect's loop without its stop check
ReconnectCheck_NoStopCheck ==
    /\ Alive
    /\ UNCHANGED aside
    /\ stopAt' = stopAt
    /\ flushErr' = flushErr
    /\ wpc = "rc_check"
    /\ wpc' = "rc_sleep"
    /\ UNCHANGED <<state, stats, port, stopCh, ctxDone, startRet, stopPc, tickC,
                   ticksFired, gen, genCalls, lastRecord, recovery, prevState,
                   delay, waited, prevWait>>

\* Channel.reconnect, the top of its loop: the stop check, then the start
\* of time.Sleep(delay)
ReconnectCheck ==
    /\ Alive
    /\ UNCHANGED aside
    /\ stopAt' = stopAt
    /\ flushErr' = flushErr
    /\ wpc = "rc_check"
    /\ IF stopCh
       THEN wpc' = "select" /\ reconnectReturn
       ELSE wpc' = "rc_sleep" /\ UNCHANGED <<delay, waited, prevWait>>
    /\ UNCHANGED <<state, stats, port, stopCh, ctxDone, startRet, stopPc, tickC,
                   ticksFired, gen, genCalls, lastRecord, recovery, prevState>>

\* the backoff without its cap
NextDelay_NoCap(d, c) == IF c.ExponentialBackoff THEN d * 2 ELSE d

\* Channel.reconnect, the backoff after a failed reopen
NextDelay(d, c) ==
    IF c.ExponentialBackoff
    THEN IF d * 2 > GetMaxReconnectDelay(c) THEN GetMaxReconnectDelay(c) ELSE d * 2
    ELSE d

\* reconnect that gives up at the first failed reopen
ReconnectAttempt_GiveUp(openOk) ==
    /\ wpc = "rc_sleep"
    /\ IF openOk
       THEN /\ port' = "open"
            /\ setState(StateRunning)
            /\ wpc' = "select"
            /\ reconnectReturn
       ELSE /\ setState(StateError)
            /\ wpc' = "exited"
            /\ reconnectReturn
            /\ port' = port

\* Channel.reconnect, from the end of time.Sleep(delay): openPort and what
\* follows it; openOk is what serial.Open answers
ReconnectAttempt(openOk) ==
    /\ wpc = "rc_sleep"
    /\ IF openOk
       THEN /\ port' = "open"
            /\ setState(StateRunning)
            /\ wpc' = "select"
            /\ reconnectReturn
       ELSE /\ delay' = NextDelay(delay, recovery)
            /\ waited' = TRUE
            /\ prevWait' = delay
            /\ wpc' = "rc_check"
            /\ UNCHANGED <<port, state, prevState>>

ReconnectWake ==
    /\ Alive
    /\ UNCHANGED aside
    /\ stopAt' = stopAt
    /\ flushErr' = flushErr
    /\ \E openOk \in BOOLEAN : ReconnectAttempt(openOk)
    /\ UNCHANGED <<stats, stopCh, ctxDone, startRet, stopPc, tickC, ticksFired,
                   gen, genCalls, lastRecord, recovery>>

\* Channel.Stop up to wg.Wait(); the Manager stops the channels it started
StopRequest ==
    /\ Alive
    /\ UNCHANGED aside
    /\ startRet = "ok"
    /\ stopPc = "idle"
    /\ stopCh' = TRUE
    /\ stopPc' = "waiting"
    /\ stopAt' = state
    /\ flushErr' = flushErr
    /\ UNCHANGED <<state, stats, port, ctxDone, startRet, wpc, tickC, ticksFired,
                   gen, genCalls, lastRecord, recovery, delay, waited, prevWait,
                   prevState>>

\* Stop without its wg.Wait()
WorkerDone_NoWait == TRUE

\* Channel.Stop, wg.Wait(): the worker has called wg.Done()
WorkerDone == wpc = "exited"

\* Channel.Stop from the return of wg.Wait()
StopFinish ==
    /\ Alive
    /\ UNCHANGED aside
    /\ stopAt' = stopAt
    /\ flushErr' = flushErr
    /\ stopPc = "waiting"
    /\ WorkerDone
    /\ port' = IF port # "nil" THEN "closed" ELSE port
    /\ setState(StateStopped)
    /\ stopPc' = "returned"
    /\ UNCHANGED <<stats, stopCh, ctxDone, startRet, wpc, tickC, ticksFired, gen,
                   genCalls, lastRecord, recovery, delay, waited, prevWait>>

\* Ticker.run with a blocking send for the select with default: a tick
\* that finds C full is queued behind it
tickerSend_Queue(c) == c + 1

\* Ticker.run, "select { case t.C <- time.Now(): default: }": the tick is
\* put into C when C has room, and skipped otherwise
tickerSend(c) == IF c < TickerBuffer THEN c + 1 ELSE c

\* Ticker.run: the interval is over, a tick is sent to C or dropped; the
\* ticker runs from NewTicker in outputLoop to the deferred ticker.Stop()
TickerFire ==
    /\ Alive
    /\ UNCHANGED aside
    /\ stopAt' = stopAt
    /\ flushErr' = flushErr
    /\ wpc \in {"select", "rc_check", "rc_sleep"}
    /\ ticksFired < MaxTicks
    /\ ticksFired' = ticksFired + 1
    /\ tickC' = tickerSend(tickC)
    /\ UNCHANGED <<state, stats, port, stopCh, ctxDone, startRet, stopPc, wpc, gen,
                   genCalls, lastRecord, recovery, delay, waited, prevWait,
                   prevState>>

\* main's signal handler: cancel()
CtxCancel ==
    /\ Alive
    /\ UNCHANGED aside
    /\ stopAt' = stopAt
    /\ flushErr' = flushErr
    /\ ~ctxDone
    /\ ctxDone' = TRUE
    /\ UNCHANGED <<state, stats, port, stopCh, startRet, stopPc, wpc, tickC,
                   ticksFired, gen, genCalls, lastRecord, recovery, delay,
                   waited, prevWait, prevState>>

\* serial.Port: the transport starts to report itself closed
TransportClose ==
    /\ Alive
    /\ UNCHANGED aside
    /\ stopAt' = stopAt
    /\ flushErr' = flushErr
    /\ port = "open"
    /\ stopPc # "returned"
    /\ port' = "closed"
    /\ UNCHANGED <<state, stats, stopCh, ctxDone, startRet, stopPc, wpc, tickC,
                   ticksFired, gen, genCalls, lastRecord, recovery, delay,
                   waited, prevWait, prevState>>

Next ==
    \/ Start
    \/ OutputLoopTick
    \/ OutputLoopExit
    \/ ReconnectCheck
    \/ ReconnectWake
    \/ StopRequest
    \/ StopFinish
    \/ TickerFire
    \/ CtxCancel
    \/ TransportClose

Spec == Init /\ [][Next]_vars

\* Scheduling: a runnable goroutine runs (weak fairness of the worker's and
\* of Stop's steps), and Go's select chooses uniformly at random among its
\* ready cases, so a case that is ready again and again is taken (strong
\* fairness of the exit case).
FairSpec ==
    /\ Spec
    /\ WF_vars(ReconnectCheck)
    /\ WF_vars(ReconnectWake)
    /\ SF_vars(OutputLoopExit)
    /\ WF_vars(StopFinish)

\* close(c.stopCh): closing a channel that is closed already is a run-time
\* panic
closeStopCh(closed) == IF closed THEN "panic" ELSE "ok"

\* a call of Channel.Stop after Stop has returned: its close(c.stopCh)
StopAgain ==
    /\ Alive
    /\ stopPc = "returned"
    /\ again.ret # "panic"
    /\ again' = [calls |-> again.calls + 1, ret |-> closeStopCh(stopCh)]
    /\ UNCHANGED <<chanVars, rl, pipe, mgr, reg, fm, snap, twin>>

\* the channel with callers that call Stop again; the panic of a goroutine
\* ends the process
StopAgainNext ==
    \/ again.ret # "panic" /\ Next
    \/ StopAgain

SpecStopAgain == Init /\ [][StopAgainNext]_vars

(* ---------------------------------------------------------- rate limiter *)

\* the calls_per_minute values followed, as fractions num / den
Rates ==
    {[num |-> -1, den |-> 1], [num |-> 0, den |-> 1], [num |-> 1, den |-> 2],
     [num |-> 1, den |-> 1], [num |-> 3, den |-> 2], [num |-> 2, den |-> 1],
     [num |-> 5, den |-> 2], [num |-> 60, den |-> 1]}

\* the jitter_percent values followed
Jitters == {0, 10, 50, 100}

Draws == 0 .. RandSteps - 1

\* the quotient a / b (b > 0) with its fraction dropped, as a conversion of
\* a floating-point value to time.Duration drops it
TruncDiv(a, b) == IF a >= 0 THEN a \div b ELSE -((-a) \div b)

\* NextInterval with "random.Float64() * 2" for "random.Float64()*2 - 1"
NextInterval_OneSided(cpm, jp, k) ==
    IF cpm.num <= 0
    THEN [kind |-> "ok", d |-> Minute]
    ELSE LET n == TruncDiv(cpm.num, cpm.den)
         IN  IF n = 0
             THEN [kind |-> "panic"]
             ELSE LET baseInterval == Minute \div n
                  IN  IF jp > 0
                      THEN [kind |-> "ok",
                            d |-> baseInterval
                                  + TruncDiv(baseInterval * (2 * k) * jp,
                                             RandSteps * 100)]
                      ELSE [kind |-> "ok", d |-> baseInterval]

\* RateLimiter.NextInterval for rate cpm, jitter jp and the draw k / RandSteps:
\* time.Duration(callsPerMinute) drops the fraction of the rate, and a
\* division of time.Minute by a zero Duration panics
NextInterval(cpm, jp, k) ==
    IF cpm.num <= 0
    THEN [kind |-> "ok", d |-> Minute]
    ELSE LET n == TruncDiv(cpm.num, cpm.den)
         IN  IF n = 0
             THEN [kind |-> "panic"]
             ELSE LET baseInterval == Minute \div n
                  IN  IF jp > 0
                      THEN [kind |-> "ok",
                            d |-> baseInterval
                                  + TruncDiv(baseInterval * (2 * k - RandSteps) * jp,
                                             RandSteps * 100)]
                      ELSE [kind |-> "ok", d |-> baseInterval]

\* NewRateLimiter
NewRateLimiter(cpm, jp) ==
    [callsPerMinute |-> cpm, jitterPercent |-> jp, calls |-> 0, draw |-> 0,
     result |-> [kind |-> "none"]]

PacingInit ==
    /\ ParkedChannel
    /\ rl \in {NewRateLimiter(cpm, jp) : cpm \in Rates, jp \in Jitters}
    /\ pipe = NoPipe
    /\ mgr = NoManager
    /\ reg = NoRegistry
    /\ fm = NoFormat
    /\ snap = NoReader
    /\ again = NoSecondStop
    /\ twin = NoTwins

\* one call of NextInterval with the draw k / RandSteps
NextIntervalDraw(k) ==
    /\ rl.calls < MaxCalls
    /\ rl.result.kind # "panic"
    /\ rl' = [rl EXCEPT !.calls = @ + 1,
                        !.draw = k,
                        !.result = NextInterval(rl.callsPerMinute,
                                                rl.jitterPercent, k)]
    /\ UNCHANGED <<chanVars, pipe, mgr, reg, fm, snap, again,
                   twin>>

NextIntervalCall == \E k \in Draws : NextIntervalDraw(k)

PacingNext == NextIntervalCall

SpecPacing == PacingInit /\ [][PacingNext]_vars

(* ------------------------------------------- one channel, call by call *)

\* a channel whose Start has succeeded: port open, output loop at its select
PipeInit ==
    /\ ParkedChannel
    /\ rl = NoLimiter
    /\ pipe = [tick |-> 0, fired |-> 0, calls |-> 0, sends |-> {},
               wire |-> <<>>, portOpen |-> TRUE, stopCh |-> FALSE,
               exited |-> FALSE]
    /\ mgr = NoManager
    /\ reg = NoRegistry
    /\ fm = NoFormat
    /\ snap = NoReader
    /\ again = NoSecondStop
    /\ twin = NoTwins

\* outputLoop with "go c.sendNextRecord(ctx)": the loop is back at its
\* select while calls are under way
LoopAtSelect_Go(sends) == TRUE

\* outputLoop calls sendNextRecord and handleError itself, so it is at its
\* select only when no call is under way
LoopAtSelect(sends) == sends = {}

\* Ticker.run: the ticker fires
PipeTickerFire ==
    /\ ~pipe.exited
    /\ pipe.fired < MaxTicks
    /\ pipe' = [pipe EXCEPT !.tick = tickerSend(@), !.fired = @ + 1]
    /\ UNCHANGED <<chanVars, rl, mgr, reg, fm, snap, again,
                   twin>>

\* outputLoop takes the tick and sendNextRecord obtains the next record
PipeObtain ==
    /\ ~pipe.exited
    /\ pipe.tick > 0
    /\ LoopAtSelect(pipe.sends)
    /\ pipe' = [pipe EXCEPT !.tick = @ - 1,
                            !.calls = @ + 1,
                            !.sends = @ \cup {[seq |-> pipe.calls + 1,
                                               phase |-> "obtained"]}]
    /\ UNCHANGED <<chanVars, rl, mgr, reg, fm, snap, again,
                   twin>>

\* sendNextRecord calls portStats.Write with the record's output
PipeWriteBegin ==
    /\ \E s \in pipe.sends :
          /\ s.phase = "obtained"
          /\ pipe' = [pipe EXCEPT !.sends = (@ \ {s})
                                       \cup {[s EXCEPT !.phase = "writing"]}]
    /\ UNCHANGED <<chanVars, rl, mgr, reg, fm, snap, again,
                   twin>>

\* a failed Write that puts the record back to be written again
PipeWriteEnd_Retry ==
    /\ \E s \in pipe.sends, writeOk \in BOOLEAN :
          /\ s.phase = "writing"
          /\ pipe' =
                IF pipe.portOpen /\ writeOk
                THEN [pipe EXCEPT !.sends = @ \ {s},
                                  !.wire = Append(@, s.seq)]
                ELSE [pipe EXCEPT !.sends = (@ \ {s})
                                      \cup {[s EXCEPT !.phase = "obtained"]}]
    /\ UNCHANGED <<chanVars, rl, mgr, reg, fm, snap, again,
                   twin>>

\* Write returns: on success the record has reached the transport; on
\* failure handleError runs, and reconnects when the port is not open
PipeWriteEnd ==
    /\ \E s \in pipe.sends, writeOk \in BOOLEAN :
          /\ s.phase = "writing"
          /\ pipe' =
                IF pipe.portOpen /\ writeOk
                THEN [pipe EXCEPT !.sends = @ \ {s},
                                  !.wire = Append(@, s.seq)]
                ELSE IF NeedReconnect(IF pipe.portOpen THEN "open" ELSE "closed")
                THEN [pipe EXCEPT !.sends = (@ \ {s})
                                      \cup {[s EXCEPT !.phase = "reconnect"]}]
                ELSE [pipe EXCEPT !.sends = @ \ {s}]
    /\ UNCHANGED <<chanVars, rl, mgr, reg, fm, snap, again,
                   twin>>

\* reconnect returns: the port is open again, or Stop was called
PipeReconnected ==
    /\ \E s \in pipe.sends, byStop \in BOOLEAN :
          /\ s.phase = "reconnect"
          /\ byStop => pipe.stopCh
          /\ pipe' = [pipe EXCEPT !.sends = @ \ {s},
                                  !.portOpen = IF byStop THEN @ ELSE TRUE]
    /\ UNCHANGED <<chanVars, rl, mgr, reg, fm, snap, again,
                   twin>>

\* the transport closes under the channel
PipeTransportClose ==
    /\ ~pipe.exited
    /\ pipe.portOpen
    /\ pipe' = [pipe EXCEPT !.portOpen = FALSE]
    /\ UNCHANGED <<chanVars, rl, mgr, reg, fm, snap, again,
                   twin>>

\* Channel.Stop closes stopCh
PipeStop ==
    /\ ~pipe.stopCh
    /\ pipe' = [pipe EXCEPT !.stopCh = TRUE]
    /\ UNCHANGED <<chanVars, rl, mgr, reg, fm, snap, again,
                   twin>>

\* outputLoop's select takes the stop case and the loop returns
PipeExit ==
    /\ ~pipe.exited
    /\ pipe.stopCh
    /\ LoopAtSelect(pipe.sends)
    /\ pipe' = [pipe EXCEPT !.exited = TRUE]
    /\ UNCHANGED <<chanVars, rl, mgr, reg, fm, snap, again,
                   twin>>

PipeNext ==
    \/ PipeTickerFire
    \/ PipeObtain
    \/ PipeWriteBegin
    \/ PipeWriteEnd
    \/ PipeReconnected
    \/ PipeTransportClose
    \/ PipeStop
    \/ PipeExit

SpecPipe == PipeInit /\ [][PipeNext]_vars

(* --------------------------------------------------------------- manager *)

Endpoints == 1 .. NumPorts

\* the generators of the Manager's endpoints: a synthetic one and a replay
\* of one record without loop
MgrGenerators ==
    {g \in NewGenerators : g.mode = ModeSynthetic \/ (g.records = 1 /\ ~g.loop)}

\* config.PortConfig, with what generator.New answers for it: an error
\* (newOk is FALSE) or the generator gen
PortConfigs ==
    {[Enabled |-> FALSE, newOk |-> TRUE, gen |-> NoChannel.gen],
     [Enabled |-> TRUE, newOk |-> FALSE, gen |-> NoChannel.gen]}
    \cup {[Enabled |-> TRUE, newOk |-> TRUE, gen |-> g] : g \in MgrGenerators}

\* NewManager, in main
MgrInit ==
    /\ ParkedChannel
    /\ rl = NoLimiter
    /\ pipe = NoPipe
    /\ mgr \in {[pc |-> "starting", idx |-> 1, cfg |-> c,
                  ch |-> [i \in Endpoints |-> NoChannel], channels |-> {},
                  startRet |-> "none", ctxDone |-> FALSE, ticks |-> 0,
                  crashed |-> FALSE] : c \in [Endpoints -> PortConfigs]}
    /\ reg = NoRegistry
    /\ fm = NoFormat
    /\ snap = NoReader
    /\ again = NoSecondStop
    /\ twin = NoTwins

\* the process runs: no goroutine has panicked and main has not exited
ProcessAlive == ~mgr.crashed /\ mgr.pc # "exited"

\* the end of the process ends the output loops of all its channels
killAll(ch) ==
    [i \in Endpoints |->
        IF ch[i].wpc \in {"select", "reconnect"}
        THEN [ch[i] EXCEPT !.wpc = "killed"]
        ELSE ch[i]]

\* Channel.Start on the channel record c
ChannelStart(c, openOk) ==
    IF openOk
    THEN [c EXCEPT !.port = "open", !.state = StateRunning, !.wpc = "select",
                   !.startRet = "ok"]
    ELSE [c EXCEPT !.state = StateError, !.startRet = "err"]

\* the round of Manager.Start that appends the channel whatever its Start
\* returned
MgrStartPort_AppendsFailed ==
    /\ ProcessAlive
    /\ mgr.pc = "starting"
    /\ mgr.idx <= NumPorts
    /\ LET i == mgr.idx
           c == mgr.cfg[i]
       IN  IF ~c.Enabled
           THEN mgr' = [mgr EXCEPT !.idx = i + 1]
           ELSE IF ~c.newOk
           THEN mgr' = [mgr EXCEPT !.startRet = "err", !.pc = "exited",
                                   !.ch = killAll(@)]
           ELSE \E openOk \in BOOLEAN :
                  mgr' = [mgr EXCEPT
                            !.idx = i + 1,
                            !.ch[i] = ChannelStart([NoChannel EXCEPT !.gen = c.gen],
                                                   openOk),
                            !.channels = @ \cup {i}]
    /\ UNCHANGED <<chanVars, rl, pipe, reg, fm, snap, again,
                   twin>>

\* Manager.Start, one round of its loop over config.Ports; when Start
\* returns an error main exits the process
MgrStartPort ==
    /\ ProcessAlive
    /\ mgr.pc = "starting"
    /\ mgr.idx <= NumPorts
    /\ LET i == mgr.idx
           c == mgr.cfg[i]
       IN  IF ~c.Enabled
           THEN mgr' = [mgr EXCEPT !.idx = i + 1]
           ELSE IF ~c.newOk
           THEN mgr' = [mgr EXCEPT !.startRet = "err", !.pc = "exited",
                                   !.ch = killAll(@)]
           ELSE \E openOk \in BOOLEAN :
                  mgr' = [mgr EXCEPT
                            !.idx = i + 1,
                            !.ch[i] = ChannelStart([NoChannel EXCEPT !.gen = c.gen],
                                                   openOk),
                            !.channels = IF openOk THEN @ \cup {i} ELSE @]
    /\ UNCHANGED <<chanVars, rl, pipe, reg, fm, snap, again,
                   twin>>

\* Manager.Start after its loop
MgrStartReturn ==
    /\ ProcessAlive
    /\ mgr.pc = "starting"
    /\ mgr.idx > NumPorts
    /\ mgr' = IF mgr.channels = {}
              THEN [mgr EXCEPT !.startRet = "err", !.pc = "exited"]
              ELSE [mgr EXCEPT !.startRet = "ok", !.pc = "running"]
    /\ UNCHANGED <<chanVars, rl, pipe, reg, fm, snap, again,
                   twin>>

\* main's signal handler cancels the context
MgrCtxCancel ==
    /\ ProcessAlive
    /\ mgr.pc \in {"starting", "running"}
    /\ ~mgr.ctxDone
    /\ mgr' = [mgr EXCEPT !.ctxDone = TRUE]
    /\ UNCHANGED <<chanVars, rl, pipe, reg, fm, snap, again,
                   twin>>

\* main calls Manager.Stop once the context is done; Stop starts one
\* goroutine per channel of m.channels
MgrStop ==
    /\ ProcessAlive
    /\ mgr.pc = "running"
    /\ mgr.ctxDone
    /\ mgr' = [mgr EXCEPT !.pc = "stopping"]
    /\ UNCHANGED <<chanVars, rl, pipe, reg, fm, snap, again,
                   twin>>

\* Channel.Stop of channel i, up to wg.Wait()
ChStopRequest(i) ==
    /\ ProcessAlive
    /\ mgr.pc = "stopping"
    /\ i \in mgr.channels
    /\ mgr.ch[i].stopPc = "idle"
    /\ mgr' = [mgr EXCEPT !.ch[i].stopCh = TRUE, !.ch[i].stopPc = "waiting"]
    /\ UNCHANGED <<chanVars, rl, pipe, reg, fm, snap, again,
                   twin>>

\* Channel.Stop of channel i, from the return of wg.Wait()
ChStopFinish(i) ==
    /\ ProcessAlive
    /\ mgr.ch[i].stopPc = "waiting"
    /\ mgr.ch[i].wpc = "exited"
    /\ mgr' = [mgr EXCEPT !.ch[i].port = IF @ # "nil" THEN "closed" ELSE @,
                          !.ch[i].state = StateStopped,
                          !.ch[i].stopPc = "returned"]
    /\ UNCHANGED <<chanVars, rl, pipe, reg, fm, snap, again,
                   twin>>

\* Manager.Stop without its wg.Wait()
MgrStopDone_NoWait == TRUE

\* Manager.Stop, wg.Wait(): every goroutine's ch.Stop() has returned
MgrStopDone == \A i \in mgr.channels : mgr.ch[i].stopPc = "returned"

\* Manager.Stop returns
MgrStopReturn ==
    /\ ProcessAlive
    /\ mgr.pc = "stopping"
    /\ MgrStopDone
    /\ mgr' = [mgr EXCEPT !.pc = "stopped"]
    /\ UNCHANGED <<chanVars, rl, pipe, reg, fm, snap, again,
                   twin>>

\* outputLoop of channel i, case <-ticker.C: sendNextRecord, handleError;
\* a panic in it ends the process
ChTick(i) ==
    /\ ProcessAlive
    /\ mgr.ch[i].wpc = "select"
    /\ mgr.ticks < MaxMgrTicks
    /\ \E writeOk \in BOOLEAN, flushOk \in BOOLEAN :
         LET c == mgr.ch[i]
             r == sendNextRecord(c.gen, c.stats, c.port, writeOk, flushOk)
         IN  mgr' =
               IF r.err = "panic"
               THEN [mgr EXCEPT !.ticks = @ + 1,
                                !.crashed = TRUE,
                                !.ch = [killAll(@) EXCEPT ![i].wpc = "panicked",
                                                          ![i].gen = r.gen]]
               ELSE IF r.err = ""
               THEN [mgr EXCEPT !.ticks = @ + 1,
                                !.ch[i].gen = r.gen,
                                !.ch[i].stats = r.stats]
               ELSE IF NeedReconnect(c.port)
               THEN [mgr EXCEPT !.ticks = @ + 1,
                                !.ch[i].gen = r.gen,
                                !.ch[i].stats = handleError(r.stats, r.err),
                                !.ch[i].state = StateReconnecting,
                                !.ch[i].wpc = "reconnect"]
               ELSE [mgr EXCEPT !.ticks = @ + 1,
                                !.ch[i].gen = r.gen,
                                !.ch[i].stats = handleError(r.stats, r.err)]
    /\ UNCHANGED <<chanVars, rl, pipe, reg, fm, snap, again,
                   twin>>

\* the transport of channel i closes under it
ChPortClose(i) ==
    /\ ProcessAlive
    /\ mgr.ch[i].wpc = "select"
    /\ mgr.ch[i].port = "open"
    /\ mgr' = [mgr EXCEPT !.ch[i].port = "closed"]
    /\ UNCHANGED <<chanVars, rl, pipe, reg, fm, snap, again,
                   twin>>

\* reconnect of channel i: a reopen attempt succeeds
ChReopen(i) ==
    /\ ProcessAlive
    /\ mgr.ch[i].wpc = "reconnect"
    /\ mgr' = [mgr EXCEPT !.ch[i].port = "open",
                          !.ch[i].state = StateRunning,
                          !.ch[i].wpc = "select"]
    /\ UNCHANGED <<chanVars, rl, pipe, reg, fm, snap, again,
                   twin>>

\* reconnect of channel i returns because of Stop: its select has the
\* case <-c.stopCh only
ChReconnectAbort(i) ==
    /\ ProcessAlive
    /\ mgr.ch[i].wpc = "reconnect"
    /\ mgr.ch[i].stopCh
    /\ mgr' = [mgr EXCEPT !.ch[i].wpc = "select"]
    /\ UNCHANGED <<chanVars, rl, pipe, reg, fm, snap, again,
                   twin>>

\* outputLoop of channel i, case <-ctx.Done() and case <-c.stopCh
ChExit(i) ==
    /\ ProcessAlive
    /\ mgr.ch[i].wpc = "select"
    /\ mgr.ch[i].stopCh \/ mgr.ctxDone
    /\ mgr' = [mgr EXCEPT !.ch[i].wpc = "exited"]
    /\ UNCHANGED <<chanVars, rl, pipe, reg, fm, snap, again,
                   twin>>

\* Manager.GetChannelStates: State() and Stats() of every channel of
\* m.channels
GetChannelStates(m) ==
    [i \in m.channels |->
        [State |-> m.ch[i].state,
         RecordsSent |-> m.ch[i].stats.RecordsSent,
         BytesSent |-> m.ch[i].stats.BytesSent,
         Errors |-> m.ch[i].stats.Errors,
         LastError |-> m.ch[i].stats.LastError]]

\* Manager.ChannelCount
ChannelCount(m) == Cardinality(m.channels)

MgrNext ==
    \/ MgrStartPort
    \/ MgrStartReturn
    \/ MgrCtxCancel
    \/ MgrStop
    \/ MgrStopReturn
    \/ \E i \in Endpoints : ChStopRequest(i)
    \/ \E i \in Endpoints : ChStopFinish(i)
    \/ \E i \in Endpoints : ChTick(i)
    \/ \E i \in Endpoints : ChPortClose(i)
    \/ \E i \in Endpoints : ChReopen(i)
    \/ \E i \in Endpoints : ChReconnectAbort(i)
    \/ \E i \in Endpoints : ChExit(i)

SpecMgr == MgrInit /\ [][MgrNext]_vars

(* ------------------------------------------------ statistics snapshots *)

\* ChannelStats of a channel that has sent nothing
NoStats == [RecordsSent |-> 0, BytesSent |-> 0, Errors |-> 0, LastError |-> ""]

\* the managed channels (all started) at work, and nobody in GetStats:
\* stats is Channel.stats, mu who holds Channel.statsMutex, w where the
\* worker is ("loop": outside its critical sections), ticks the calls of
\* sendNextRecord made, seen the values of stats at the releases of the
\* mutex; idx and out are the loop variable and the map of a GetStats call
\* under way (idx 0: none), returned the map the last call returned
SnapshotInit ==
    /\ ParkedChannel
    /\ rl = NoLimiter
    /\ pipe = NoPipe
    /\ mgr = NoManager
    /\ reg = NoRegistry
    /\ fm = NoFormat
    /\ snap = [pc |-> "on",
               stats |-> [i \in Endpoints |-> NoStats],
               mu |-> [i \in Endpoints |-> "free"],
               w |-> [i \in Endpoints |-> "loop"],
               ticks |-> 0,
               seen |-> [i \in Endpoints |-> {NoStats}],
               idx |-> 0,
               out |-> <<>>,
               returned |-> <<>>,
               calls |-> 0]
    /\ again = NoSecondStop
    /\ twin = NoTwins

\* sync.RWMutex.Lock: nobody holds the mutex
Lock(holder) == holder = "free"

\* Channel.Stats without its statsMutex.RLock()
RLock_NoMutex(holder) == TRUE

\* sync.RWMutex.RLock: no writer holds the mutex
RLock(holder) == holder # "worker"

\* sendNextRecord after its write, or handleError: statsMutex.Lock()
SnapLock(i) ==
    /\ snap.pc = "on"
    /\ snap.w[i] = "loop"
    /\ snap.ticks < MaxMgrTicks
    /\ Lock(snap.mu[i])
    /\ \E sent \in BOOLEAN :
         snap' = [snap EXCEPT !.mu[i] = "worker",
                              !.ticks = @ + 1,
                              !.w[i] = IF sent THEN "send_locked"
                                       ELSE "error_locked"]
    /\ UNCHANGED <<chanVars, rl, pipe, mgr, reg, fm, again, twin>>

\* the first assignment under the mutex: c.stats.RecordsSent++ in
\* sendNextRecord, c.stats.Errors++ in handleError
SnapCount(i) ==
    /\ snap.w[i] \in {"send_locked", "error_locked"}
    /\ snap' = IF snap.w[i] = "send_locked"
               THEN [snap EXCEPT !.stats[i].RecordsSent = @ + 1,
                                 !.w[i] = "send_counted"]
               ELSE [snap EXCEPT !.stats[i].Errors = @ + 1,
                                 !.w[i] = "error_counted"]
    /\ UNCHANGED <<chanVars, rl, pipe, mgr, reg, fm, again, twin>>

\* the rest under the mutex and statsMutex.Unlock(): c.stats.BytesSent +=
\* int64(n) in sendNextRecord, c.stats.LastError = err.Error() in handleError
SnapUnlock(i) ==
    /\ snap.w[i] \in {"send_counted", "error_counted"}
    /\ LET st == IF snap.w[i] = "send_counted"
                 THEN [snap.stats[i] EXCEPT
                          !.BytesSent = @ + OutputLen(snap.stats[i].RecordsSent)]
                 ELSE [snap.stats[i] EXCEPT
                          !.LastError = "failed to write to port"]
       IN  snap' = [snap EXCEPT !.stats[i] = st,
                                !.mu[i] = "free",
                                !.w[i] = "loop",
                                !.seen[i] = @ \cup {st}]
    /\ UNCHANGED <<chanVars, rl, pipe, mgr, reg, fm, again, twin>>

\* Manager.GetStats up to its loop
GetStatsCall ==
    /\ snap.pc = "on"
    /\ snap.idx = 0
    /\ snap.calls < MaxCalls
    /\ snap' = [snap EXCEPT !.idx = 1, !.out = <<>>, !.calls = @ + 1]
    /\ UNCHANGED <<chanVars, rl, pipe, mgr, reg, fm, again, twin>>

\* Manager.GetStats, one round of its loop: stats[channel.Device()] =
\* channel.Stats(), which copies c.stats under statsMutex.RLock()
GetStatsRound ==
    /\ snap.idx \in Endpoints
    /\ RLock(snap.mu[snap.idx])
    /\ snap' = [snap EXCEPT !.idx = @ + 1,
                            !.out = Append(@, snap.stats[snap.idx])]
    /\ UNCHANGED <<chanVars, rl, pipe, mgr, reg, fm, again, twin>>

\* Manager.GetStats returns its map
GetStatsReturn ==
    /\ snap.idx > NumPorts
    /\ snap' = [snap EXCEPT !.idx = 0, !.out = <<>>, !.returned = snap.out]
    /\ UNCHANGED <<chanVars, rl, pipe, mgr, reg, fm, again, twin>>

SnapshotNext ==
    \/ \E i \in Endpoints : SnapLock(i)
    \/ \E i \in Endpoints : SnapCount(i)
    \/ \E i \in Endpoints : SnapUnlock(i)
    \/ GetStatsCall
    \/ GetStatsRound
    \/ GetStatsReturn

SpecSnapshot == SnapshotInit /\ [][SnapshotNext]_vars

(* -------------------------------------------------------------- registry *)

\* the names formats answer from Name(), and the names Get is asked for
FormatNames == {"vesta", "Vesta", "VESTA", "viper", "Viper"}

\* strings.ToLower
ToLower(name) ==
    CASE name \in {"vesta", "Vesta", "VESTA"} -> "vesta"
      [] name \in {"viper", "Viper"} -> "viper"
      [] OTHER -> name

\* the formats handed to Register: instance inst answers name from Name()
Formats == [name : FormatNames, inst : 1 .. MaxFormats]

\* Register that keys the registry by format.Name() as it is
Register_CaseSensitive(r, format) ==
    LET name == format.name
    IN  IF name \in DOMAIN r
        THEN [registry |-> r, ret |-> "err"]
        ELSE [registry |-> r @@ (name :> format.inst), ret |-> "ok"]

\* format.Register on the registry map r
Register(r, format) ==
    LET name == ToLower(format.name)
    IN  IF name \in DOMAIN r
        THEN [registry |-> r, ret |-> "err"]
        ELSE [registry |-> r @@ (name :> format.inst), ret |-> "ok"]

\* format.Get on the registry map r: the instance, or 0 with its error
Get(r, name) ==
    IF ToLower(name) \in DOMAIN r THEN r[ToLower(name)] ELSE 0

\* the registry map when the program starts
RegistryInit ==
    /\ ParkedChannel
    /\ rl = NoLimiter
    /\ pipe = NoPipe
    /\ mgr = NoManager
    /\ fm = NoFormat
    /\ snap = NoReader
    /\ again = NoSecondStop
    /\ twin = NoTwins
    /\ reg = [NoRegistry EXCEPT !.ret = "new"]

\* one Register call
RegisterCall ==
    /\ reg.ret # "none"
    /\ reg.n < MaxRegisters
    /\ \E format \in Formats :
         LET r == Register(reg.registry, format)
         IN  reg' = [registry |-> r.registry, n |-> reg.n + 1, arg |-> format,
                     ret |-> r.ret]
    /\ UNCHANGED <<chanVars, rl, pipe, mgr, fm, snap, again,
                   twin>>

RegistryNext == RegisterCall

SpecRegistry == RegistryInit /\ [][RegistryNext]_vars

(* --------------------------------------------------------------- formats *)

ProtoVesta == "vesta"
ProtoViper == "viper"

\* the sequence ids (sysident) of the rows of a sample file
SysIdents == 1 .. MaxSysIdent

\* the numbers of rows of a sample file
SampleLengths == 0 .. 3

\* the messages of a Vesta sample file: the separator literal, the empty
\* message, a line with "Call <number> ... Arrives On" (the number is taken
\* to be the row's sequence id), any other line
VestaSeparator == "sep"
VestaMessages == {VestaSeparator, "", "arrive", "data"}

\* the messages of a Viper sample file: the four markers, a message that is
\* empty once trimmed, any other line
ViperCDRBegin == "cbegin"
ViperCDREnd == "cend"
ViperAgentBegin == "abegin"
ViperAgentEnd == "aend"
ViperMessages ==
    {ViperCDRBegin, ViperCDREnd, ViperAgentBegin, ViperAgentEnd, "", "body"}

\* the rows of a sample file as the csv reader meets them: a row of two
\* columns with an integer id, a row of two columns whose id is no integer
\* (the header row is one), a row with another number of columns
Rows(messages) ==
    [shape : {"ok"}, id : SysIdents, msg : messages]
    \cup {[shape |-> "badid", id |-> 0, msg |-> "data"],
          [shape |-> "badcols", id |-> 0, msg |-> "data"]}

\* the sample files
SampleFiles(messages) ==
    UNION {[1 .. n -> Rows(messages)] : n \in SampleLengths}

\* csv.Reader.ReadAll with FieldsPerRecord = 2: a row with another number of
\* fields fails the whole read
ReadAll(rows) ==
    IF \E i \in 1 .. Len(rows) : rows[i].shape = "badcols"
    THEN [kind |-> "err", rows |-> <<>>]
    ELSE [kind |-> "ok", rows |-> rows]

\* the loop over rawRecords: rows whose id strconv.ParseInt rejects are
\* skipped
IsOkRow(row) == row.shape = "ok"

ParseMessages(rows) ==
    LET ok == SelectSeq(rows, IsOkRow)
    IN  [i \in 1 .. Len(ok) |-> [id |-> ok[i].id, msg |-> ok[i].msg]]

\* seq without its i-th element
RemoveAt(seq, i) ==
    [j \in 1 .. Len(seq) - 1 |-> IF j < i THEN seq[j] ELSE seq[j + 1]]

\* a parser that leaves the messages in the order of the file
SortSlice_FileOrder(messages) == {messages}

\* sort.Slice by SysIdent: the sort is not stable, so messages with equal
\* ids come out in any order
RECURSIVE SortSlice(_)
SortSlice(messages) ==
    IF \A i \in 1 .. Len(messages) - 1 : messages[i].id < messages[i + 1].id
    THEN {messages}
    ELSE UNION {
           {<<messages[i]>> \o rest : rest \in SortSlice(RemoveAt(messages, i))}
           : i \in {i \in 1 .. Len(messages) :
                      \A j \in 1 .. Len(messages) :
                        messages[i].id <= messages[j].id}}

\* format.CDRRecord
CDRRecord(id, type, lines) ==
    [ID |-> id, Type |-> type, Lines |-> lines, Duration |-> 0]

\* what ParseRecords answers
ParseError == [kind |-> "err", records |-> <<>>]
Parsed(records) == [kind |-> "ok", records |-> records]

(* ----------------------------------------------------------------- vesta *)

\* ParseVestaCSV, the extraction of the call id: a line with "Call " and
\* "Arrives On" sets currentID, whatever currentID was
VestaExtractID(currentID, m) == IF m.msg = "arrive" THEN m.id ELSE currentID

\* ParseVestaCSV, the end of the function without its len(currentLines) > 0
VestaFlush_Always(records, currentLines, currentID) ==
    Append(records, CDRRecord(currentID, "cdr", currentLines))

\* ParseVestaCSV, the last record when there is no trailing separator
VestaFlush(records, currentLines, currentID) ==
    IF Len(currentLines) > 0
    THEN Append(records, CDRRecord(currentID, "cdr", currentLines))
    ELSE records

\* ParseVestaCSV, the loop that groups the sorted messages into blocks; the
\* id 0 stands for the empty currentID
RECURSIVE VestaGroup(_, _, _, _, _)
VestaGroup(messages, i, records, currentLines, currentID) ==
    IF i > Len(messages)
    THEN VestaFlush(records, currentLines, currentID)
    ELSE LET m == messages[i]
         IN  IF m.msg = VestaSeparator
             THEN IF Len(currentLines) > 0
                  THEN VestaGroup(messages, i + 1,
                                  Append(records,
                                         CDRRecord(currentID, "cdr",
                                                   Append(currentLines,
                                                          [id |-> m.id,
                                                           msg |-> VestaSeparator]))),
                                  <<>>, 0)
                  ELSE VestaGroup(messages, i + 1, records, currentLines, currentID)
             ELSE IF m.msg = ""
             THEN VestaGroup(messages, i + 1, records, currentLines, currentID)
             ELSE VestaGroup(messages, i + 1, records, Append(currentLines, m),
                             VestaExtractID(currentID, m))

\* ParseVestaCSV on the rows of a sample file, for the order sorted that
\* sort.Slice left the messages in
ParseVestaCSV(rows, sorted) ==
    IF ReadAll(rows).kind = "err"
    THEN ParseError
    ELSE Parsed(VestaGroup(sorted, 1, <<>>, <<>>, 0))

(* ----------------------------------------------------------------- viper *)

IsViperBegin(msg) == msg \in {ViperCDRBegin, ViperAgentBegin}

IsViperEnd(msg) == msg \in {ViperCDREnd, ViperAgentEnd}

\* ParseViperCSV, currentType of a block opened by the marker msg
ViperType(msg) == IF msg = ViperCDRBegin THEN "cdr" ELSE "agent"

\* ParseViperCSV, the end of the function without the last record
ViperFlush_Drop(records, currentLines, currentType, inBlock) == records

\* ParseViperCSV, the last record when there is no trailing end marker
ViperFlush(records, currentLines, currentType, inBlock) ==
    IF inBlock /\ Len(currentLines) > 0
    THEN Append(records, CDRRecord(0, currentType, currentLines))
    ELSE records

\* the grouping loop with a BEGIN marker that forgets the block still open
RECURSIVE ViperGroup_BeginForgets(_, _, _, _, _, _)
ViperGroup_BeginForgets(messages, i, records, currentLines, currentType, inBlock) ==
    IF i > Len(messages)
    THEN ViperFlush(records, currentLines, currentType, inBlock)
    ELSE LET m == messages[i]
         IN  IF IsViperBegin(m.msg)
             THEN ViperGroup_BeginForgets(messages, i + 1, records,
                                          <<m>>, ViperType(m.msg), TRUE)
             ELSE IF IsViperEnd(m.msg)
             THEN IF inBlock
                  THEN ViperGroup_BeginForgets(
                           messages, i + 1,
                           Append(records,
                                  CDRRecord(0, currentType,
                                            Append(currentLines, m))),
                           <<>>, "", FALSE)
                  ELSE ViperGroup_BeginForgets(messages, i + 1, records,
                                               currentLines, currentType,
                                               inBlock)
             ELSE IF inBlock /\ m.msg # ""
             THEN ViperGroup_BeginForgets(messages, i + 1, records,
                                          Append(currentLines, m),
                                          currentType, inBlock)
             ELSE ViperGroup_BeginForgets(messages, i + 1, records,
                                          currentLines, currentType, inBlock)

\* ParseViperCSV, the loop that groups the sorted messages into blocks
\* (the call id of a block is not followed: 0)
RECURSIVE ViperGroup(_, _, _, _, _, _)
ViperGroup(messages, i, records, currentLines, currentType, inBlock) ==
    IF i > Len(messages)
    THEN ViperFlush(records, currentLines, currentType, inBlock)
    ELSE LET m == messages[i]
         IN  IF IsViperBegin(m.msg)
             THEN ViperGroup(messages, i + 1,
                             IF inBlock /\ Len(currentLines) > 0
                             THEN Append(records,
                                         CDRRecord(0, currentType, currentLines))
                             ELSE records,
                             <<m>>, ViperType(m.msg), TRUE)
             ELSE IF IsViperEnd(m.msg)
             THEN IF inBlock
                  THEN ViperGroup(messages, i + 1,
                                  Append(records,
                                         CDRRecord(0, currentType,
                                                   Append(currentLines, m))),
                                  <<>>, "", FALSE)
                  ELSE ViperGroup(messages, i + 1, records, currentLines,
                                  currentType, inBlock)
             ELSE IF inBlock /\ m.msg # ""
             THEN ViperGroup(messages, i + 1, records, Append(currentLines, m),
                             currentType, inBlock)
             ELSE ViperGroup(messages, i + 1, records, currentLines,
                             currentType, inBlock)

\* ParseViperCSV on the rows of a sample file, for the order sorted that
\* sort.Slice left the messages in
ParseViperCSV(rows, sorted) ==
    IF ReadAll(rows).kind = "err"
    THEN ParseError
    ELSE Parsed(ViperGroup(sorted, 1, <<>>, <<>>, "", FALSE))

\* CDRFormat.ParseRecords of the format proto
ParseRecords(proto, rows, sorted) ==
    IF proto = ProtoVesta
    THEN ParseVestaCSV(rows, sorted)
    ELSE ParseViperCSV(rows, sorted)

(* ------------------------------------------------------------- synthetic *)

\* rand.Intn(n)
Intn(n) == 0 .. n - 1

\* GenerationContext.RandomDuration, in seconds, for the draw k of
\* Random.Intn(maxSec - minSec)
RandomDuration(minSec, maxSec, k) ==
    IF maxSec <= minSec THEN minSec ELSE minSec + k

\* the draws of the call RandomDuration(30, 300) both generators make
DurationDraws == Intn(300 - 30)

\* GenerationContext.NextCallNumber
NextCallNumber(ctx) == [ctx EXCEPT !.CallNumber = @ + 1]

\* the lines of a generated record, numbered as they are fed to a parser
Numbered(msgs) == [i \in 1 .. Len(msgs) |-> [id |-> i, msg |-> msgs[i]]]

\* GenerateVestaRecord: the lines it appends
VestaLines ==
    <<"data", "arrive", "data", "data", "data", "data", VestaSeparator>>

\* GenerateVestaRecord
GenerateVestaRecord(ctx, k) ==
    LET next == NextCallNumber(ctx)
    IN  [ctx |-> next,
         record |-> [ID |-> next.CallNumber, Type |-> "cdr",
                     Lines |-> Numbered(VestaLines),
                     Duration |-> RandomDuration(30, 300, k)]]

\* GenerateViperRecord: the lines it appends up to the CDR END marker
ViperCDRLines ==
    <<ViperCDRBegin,
      "body", "body", "body", "body", "body", "body", "body", "body", "body",
      "body", "body", "body", "body",
      "", "body", "",
      "body", "body", "body", "body",
      "", "", "body", "body", "", "", "body", "body", "body",
      "",
      ViperCDREnd>>

\* generateAgentBlock, with the empty line GenerateViperRecord puts before it
ViperAgentLines ==
    <<"", ViperAgentBegin,
      "body", "body", "body", "body", "body", "body", "body",
      ViperAgentEnd>>

\* GenerateViperRecord whose agent block takes a call number of its own
GenerateViperRecord_AgentNumbered(ctx, k, agent) ==
    LET next == IF agent
                THEN NextCallNumber(NextCallNumber(ctx))
                ELSE NextCallNumber(ctx)
    IN  [ctx |-> next,
         record |-> [ID |-> next.CallNumber % 100000, Type |-> "cdr",
                     Lines |-> Numbered(IF agent
                                        THEN ViperCDRLines \o ViperAgentLines
                                        ELSE ViperCDRLines),
                     Duration |-> RandomDuration(30, 300, k)]]

\* GenerateViperRecord; agent is the draw Random.Float32() > 0.3
GenerateViperRecord(ctx, k, agent) ==
    LET next == NextCallNumber(ctx)
    IN  [ctx |-> next,
         record |-> [ID |-> next.CallNumber % 100000, Type |-> "cdr",
                     Lines |-> Numbered(IF agent
                                        THEN ViperCDRLines \o ViperAgentLines
                                        ELSE ViperCDRLines),
                     Duration |-> RandomDuration(30, 300, k)]]

\* CDRFormat.GenerateRecord of the format proto
GenerateRecord(proto, ctx, k, agent) ==
    IF proto = ProtoVesta
    THEN GenerateVestaRecord(ctx, k)
    ELSE GenerateViperRecord(ctx, k, agent)

\* NewGenerationContext
NewGenerationContext == [CallNumber |-> FirstCallNumber]

\* config.SyntheticConfig: a duration range config.Validate lets through
\* (MinDurationSec >= 1, MaxDurationSec >= MinDurationSec)
SyntheticConfigs ==
    {[MinDurationSec |-> 10, MaxDurationSec |-> 20]}

\* the draws of Random.Float32() > 0.3 a GenerateRecord call makes: only
\* GenerateViperRecord makes it
AgentDraws(proto) == IF proto = ProtoViper THEN BOOLEAN ELSE {FALSE}

(* ------------------------------------------------- a format handler at work *)

\* no record has been returned
NoCDRRecord == CDRRecord(0, "", <<>>)

\* generator.New in replay mode, before loadSampleFile has parsed the rows
\* of the sample file
NewReplay(proto, rows) ==
    [mode |-> ModeReplay, proto |-> proto, rows |-> rows, sorted |-> <<>>,
     out |-> [kind |-> "none", records |-> <<>>], recordIndex |-> 0,
     calls |-> 0, ret |-> NoCDRRecord]

\* generator.New in synthetic mode, with NewGenerationContext
NewSynthetic(proto, synthetic) ==
    [mode |-> ModeSynthetic, proto |-> proto, synthetic |-> synthetic,
     ctx |-> NewGenerationContext, calls |-> 0, ret |-> NoCDRRecord,
     agent |-> FALSE, reparsed |-> [kind |-> "none", records |-> <<>>]]

\* generator.New in replay mode, for either format and any sample file
NewReplays ==
    {NewReplay(ProtoVesta, rows) : rows \in SampleFiles(VestaMessages)}
    \cup {NewReplay(ProtoViper, rows) : rows \in SampleFiles(ViperMessages)}

\* generator.New in synthetic mode, for either format
NewSynthetics ==
    {NewSynthetic(proto, c) :
        proto \in {ProtoVesta, ProtoViper}, c \in SyntheticConfigs}

\* a generator in replay mode
ParseInit ==
    /\ ParkedChannel
    /\ rl = NoLimiter
    /\ pipe = NoPipe
    /\ mgr = NoManager
    /\ reg = NoRegistry
    /\ fm \in NewReplays
    /\ snap = NoReader
    /\ again = NoSecondStop
    /\ twin = NoTwins

\* a generator in either mode
FormatInit ==
    /\ ParkedChannel
    /\ rl = NoLimiter
    /\ pipe = NoPipe
    /\ mgr = NoManager
    /\ reg = NoRegistry
    /\ fm \in NewReplays \cup NewSynthetics
    /\ snap = NoReader
    /\ again = NoSecondStop
    /\ twin = NoTwins

\* Generator.loadSampleFile: ParseRecords on the rows of the sample file
LoadSampleFile ==
    /\ fm.mode = ModeReplay
    /\ fm.out.kind = "none"
    /\ \E sorted \in SortSlice(ParseMessages(ReadAll(fm.rows).rows)) :
         fm' = [fm EXCEPT !.sorted = sorted,
                          !.out = ParseRecords(fm.proto, fm.rows, sorted)]
    /\ UNCHANGED <<chanVars, rl, pipe, mgr, reg, snap, again,
                   twin>>

\* Generator.NextRecord in replay mode (loop set), once per parsed record
NextReplay ==
    /\ fm.mode = ModeReplay
    /\ fm.out.kind = "ok"
    /\ fm.calls < Len(fm.out.records)
    /\ LET r == nextReplayRecord([mode |-> ModeReplay,
                                  records |-> Len(fm.out.records),
                                  recordIndex |-> fm.recordIndex,
                                  loop |-> TRUE, callCounter |-> 0])
       IN  /\ r[2].kind = "ok"
           /\ fm' = [fm EXCEPT !.recordIndex = r[1].recordIndex,
                               !.calls = @ + 1,
                               !.ret = fm.out.records[r[2].rec + 1]]
    /\ UNCHANGED <<chanVars, rl, pipe, mgr, reg, snap, again,
                   twin>>

\* Generator.NextRecord in synthetic mode: GenerateRecord on the context
NextSynthetic ==
    /\ fm.mode = ModeSynthetic
    /\ fm.calls < MaxGenerated
    /\ \E k \in DurationDraws, agent \in AgentDraws(fm.proto) :
         LET r == GenerateRecord(fm.proto, fm.ctx, k, agent)
         IN  fm' = [fm EXCEPT !.ctx = r.ctx,
                              !.calls = @ + 1,
                              !.ret = r.record,
                              !.agent = agent,
                              !.reparsed = [kind |-> "none", records |-> <<>>]]
    /\ UNCHANGED <<chanVars, rl, pipe, mgr, reg, snap, again,
                   twin>>

\* the lines of the last generated record, captured in order as the rows
\* of a sample file, are given to the same format's ParseRecords
Reparse ==
    /\ fm.mode = ModeSynthetic
    /\ fm.calls > 0
    /\ fm.reparsed.kind = "none"
    /\ LET rows == [i \in 1 .. Len(fm.ret.Lines) |->
                      [shape |-> "ok", id |-> fm.ret.Lines[i].id,
                       msg |-> fm.ret.Lines[i].msg]]
       IN  \E sorted \in SortSlice(ParseMessages(ReadAll(rows).rows)) :
             fm' = [fm EXCEPT !.reparsed = ParseRecords(fm.proto, rows, sorted)]
    /\ UNCHANGED <<chanVars, rl, pipe, mgr, reg, snap, again,
                   twin>>

ParseNext ==
    \/ LoadSampleFile
    \/ NextReplay

SpecParse == ParseInit /\ [][ParseNext]_vars

\* a generator in synthetic mode
SyntheticInit ==
    /\ ParkedChannel
    /\ rl = NoLimiter
    /\ pipe = NoPipe
    /\ mgr = NoManager
    /\ reg = NoRegistry
    /\ fm \in NewSynthetics
    /\ snap = NoReader
    /\ again = NoSecondStop
    /\ twin = NoTwins

SyntheticNext ==
    \/ NextSynthetic
    \/ Reparse

SpecSynthetic == SyntheticInit /\ [][SyntheticNext]_vars

FormatNext ==
    \/ LoadSampleFile
    \/ NextReplay
    \/ NextSynthetic
    \/ Reparse

SpecFormat == FormatInit /\ [][FormatNext]_vars

(* ------------------------------------------------------ two generators *)

\* the times at which generator.New can be called
Clock == 1 .. 3

\* generator.New with a seed taken from the clock, as NewRateLimiter does
GeneratorSeed_UnixNano(now) == now

\* generator.New: the seed it gives NewGenerationContext, the literal 0
GeneratorSeed(now) == 0

\* rand.NewSource: the state of a source is a function of the seed alone
NewSource(seed) == seed % 16

\* rand.Rand: a draw is a function of the state of the source, which it
\* replaces (a linear congruential generator of full period stands for the
\* generator of the library)
Draw(source) == (source * 5 + 1) % 16

\* NewGenerationContext(systemID, psapName, seed)
NewSeededContext(seed) ==
    [CallNumber |-> NewGenerationContext.CallNumber, Random |-> NewSource(seed)]

\* generator.New in synthetic mode at the time now: the generator with its
\* private context, the draws made on it and the records it has returned
NewTwin(proto, now) ==
    [proto |-> proto, now |-> now, seed |-> GeneratorSeed(now),
     ctx |-> NewSeededContext(GeneratorSeed(now)), drawn |-> <<>>,
     out |-> <<>>]

\* two generators built by generator.New, at any times and of any formats
TwinInit ==
    /\ ParkedChannel
    /\ rl = NoLimiter
    /\ pipe = NoPipe
    /\ mgr = NoManager
    /\ reg = NoRegistry
    /\ fm = NoFormat
    /\ snap = NoReader
    /\ again = NoSecondStop
    /\ twin \in {[pc |-> "on", g |-> <<a, b>>] :
                   a \in {NewTwin(proto, now) :
                            proto \in {ProtoVesta, ProtoViper}, now \in Clock},
                   b \in {NewTwin(proto, now) :
                            proto \in {ProtoVesta, ProtoViper}, now \in Clock}}

\* Generator.NextRecord on generator i: GenerateRecord with the draws of
\* the context's own source, the one of RandomDuration(30, 300) and, for
\* Viper, the one of Random.Float32() > 0.3
TwinNextRecord(i) ==
    /\ twin.pc = "on"
    /\ Len(twin.g[i].out) < MaxGenerated
    /\ LET g == twin.g[i]
           d1 == Draw(g.ctx.Random)
           d2 == Draw(d1)
           viper == g.proto = ProtoViper
           r == GenerateRecord(g.proto,
                               [g.ctx EXCEPT !.Random = IF viper THEN d2 ELSE d1],
                               d1 % (300 - 30), viper /\ d2 * 10 > 16 * 3)
       IN  twin' = [twin EXCEPT
                      !.g[i].ctx = r.ctx,
                      !.g[i].drawn = @ \o (IF viper THEN <<d1, d2>> ELSE <<d1>>),
                      !.g[i].out = Append(@, r.record)]
    /\ UNCHANGED <<chanVars, rl, pipe, mgr, reg, fm, snap, again>>

TwinNext == \E i \in {1, 2} : TwinNextRecord(i)

SpecTwins == TwinInit /\ [][TwinNext]_vars

(* ---------------------------------------------------------------- claims *)

InReconnect == wpc \in {"rc_check", "rc_sleep"}

\* a step that is one tick of the production loop (one NextRecord call)
TickStep == genCalls' = genCalls + 1

\* the tick of this step ended in a production error: the generator
\* returned an error, or the record was not written
TickFailed ==
    /\ TickStep
    /\ \/ lastRecord'.kind = "err"
       \/ lastRecord'.kind = "ok" /\ stats'.RecordsSent = stats.RecordsSent

AllowedTransitions ==
    {<<StateInitializing, StateRunning>>, <<StateInitializing, StateError>>,
     <<StateRunning, StateReconnecting>>, <<StateReconnecting, StateRunning>>,
     <<StateRunning, StateStopped>>, <<StateReconnecting, StateStopped>>}

C2_ReconnectOnlyWhenClosed ==
    [][/\ (state = StateRunning /\ state' = StateReconnecting)
            => (TickFailed /\ port = "closed" /\ port' = port
                /\ stats'.Errors = stats.Errors + 1)
       /\ (TickFailed /\ port = "open")
            => /\ stats'.Errors = stats.Errors + 1
               /\ stats'.LastError # ""
               /\ state = StateRunning
               /\ state' = StateRunning
               /\ wpc' = "select"]_vars

C2_Witness ==
    /\ state = StateReconnecting
    /\ prevState = StateRunning
    /\ port = "closed"
    /\ stats.Errors >= 2
    /\ stats.LastError = "failed to write to port"

\* C3: in the reconnect procedure with no stop requested the worker always
\* has a next step (a wait or a reopen attempt), no step takes the state to
\* anything but Reconnecting or Running (it never gives up to Error or
\* Stopped), the worker leaves the procedure only by a successful reopen,
\* and a successful reopen makes the state Running with the worker back at
\* the production loop's select.
C3_ReconnectNeverGivesUp ==
    [][(InReconnect /\ ~stopCh)
         => /\ state = StateReconnecting
            /\ ENABLED (ReconnectCheck \/ ReconnectWake)
            /\ state' \in {StateReconnecting, StateRunning}
            /\ wpc' \in {"rc_check", "rc_sleep", "select"}
            /\ (wpc' = "select") <=> (state' = StateRunning)
            /\ (port' = "open") <=> (state' = StateRunning)]_vars

C3_Witness ==
    /\ InReconnect
    /\ ~stopCh
    /\ waited
    /\ delay = GetMaxReconnectDelay(recovery)
    /\ prevWait = delay

\* C4: a Stop requested while the channel is Reconnecting eventually
\* returns with the state Stopped.
C4_StopWhileReconnectingReturns ==
    (stopPc = "waiting" /\ stopAt = StateReconnecting)
        ~> (stopPc = "returned" /\ state = StateStopped)

\* C5: with exponential backoff every delay waited before a reopen attempt,
\* the first included, is at most the configured maximum reconnect delay.
C5_EveryWaitAtMostMax ==
    (wpc = "rc_sleep" /\ recovery.ExponentialBackoff)
        => delay <= GetMaxReconnectDelay(recovery)

\* C6: the first wait of a reconnect procedure is the configured initial
\* delay; after a failed reopen the next wait is min(2 x previous, maximum)
\* with exponential backoff and the previous wait without it.
C6_BackoffSequence ==
    wpc = "rc_sleep"
        => delay = IF ~waited THEN GetReconnectDelay(recovery)
                   ELSE IF recovery.ExponentialBackoff
                   THEN Min(2 * prevWait, GetMaxReconnectDelay(recovery))
                   ELSE prevWait

C6_Witness ==
    /\ wpc = "rc_sleep"
    /\ waited
    /\ recovery.ExponentialBackoff
    /\ delay = GetMaxReconnectDelay(recovery)
    /\ 2 * prevWait > delay
    /\ prevWait < delay

\* C7: when the initial open fails Start returns an error, the state is
\* Error, no production loop runs: the generator is never called and the
\* statistics stay zero.
C7_FailedStartNeverProduces ==
    startRet = "err"
        => /\ state = StateError
           /\ wpc = "none"
           /\ genCalls = 0
           /\ tickC = 0
           /\ stats.RecordsSent = 0
           /\ stats.BytesSent = 0
           /\ stats.Errors = 0

C7_Witness == startRet = "err" /\ ctxDone

\* C8: a non-looping replay generator of N records returns records 0..N-1 on
\* its first N calls, all successful, and an error (not a crash) on call N+1.
C8_ReplayWithoutLoop ==
    (gen.mode = ModeReplay /\ ~gen.loop)
        => /\ genCalls \in 1..gen.records => lastRecord = OkRecord(genCalls - 1)
           /\ genCalls = gen.records + 1 => lastRecord.kind = "err"

\* C9: a looping replay generator of N records never fails: call k (from 0)
\* returns record k mod N, and the cursor stays in 0..N-1.
C9_ReplayWithLoop ==
    (gen.mode = ModeReplay /\ gen.loop)
        => /\ gen.recordIndex \in 0..(gen.records - 1)
           /\ genCalls >= 1 => lastRecord = OkRecord((genCalls - 1) % gen.records)

C9_Witness ==
    /\ gen.mode = ModeReplay
    /\ gen.loop
    /\ gen.records >= 2
    /\ genCalls > gen.records
    /\ lastRecord = OkRecord(0)

\* the replay cursor is at the end of a sample that does not loop
Exhausted ==
    gen.mode = ModeReplay /\ ~gen.loop /\ gen.recordIndex >= gen.records

\* C10: every tick after a non-looping replay generator is exhausted, with
\* the transport open, only adds one to the error counter and sets the
\* last-error text: the state stays Running and the worker goes on.
C10_ExhaustedDegradesInPlace ==
    [][(Exhausted /\ TickStep /\ port = "open")
         => /\ stats'.Errors = stats.Errors + 1
            /\ stats'.LastError # ""
            /\ stats'.RecordsSent = stats.RecordsSent
            /\ stats'.BytesSent = stats.BytesSent
            /\ state' = StateRunning
            /\ wpc' = "select"]_vars

\* ticks the ticker has skipped because one was pending: every tick fired
\* was consumed by the worker (one NextRecord call each), is pending, or was
\* dropped
DroppedTicks == ticksFired - genCalls - tickC

\* C16: at every moment at most one unconsumed tick is pending, and a tick
\* that fires while one is pending is dropped (the pending one stays, no
\* second one is queued) without stopping the ticker, which goes on to fire.
C16_TickerNoBacklog ==
    /\ [](tickC \in {0, 1} /\ DroppedTicks >= 0)
    /\ [][ticksFired' = ticksFired + 1
            => /\ tickC' = 1
               /\ tickC = 1 => DroppedTicks' = DroppedTicks + 1]_vars
    /\ []((wpc \in {"select", "rc_check", "rc_sleep"} /\ ticksFired < MaxTicks)
            => ENABLED TickerFire)

C16_Witness ==
    /\ wpc = "rc_sleep"
    /\ tickC = 1
    /\ DroppedTicks >= 2

\* C20: no reachable state of the channel has state Paused.
C20_NeverPaused == state \in ChannelState \ {StatePaused}

C20_Witness ==
    /\ state = StateRunning
    /\ prevState = StateReconnecting
    /\ stats.RecordsSent >= 1
    /\ stats.Errors >= 1
    /\ stopCh

\* C19: records_sent, bytes_sent and errors never decrease; a successful
\* send adds exactly 1 to records_sent and the strictly positive number of
\* bytes of the record to bytes_sent, and bytes_sent changes in no other
\* step; a failed tick changes neither records_sent nor bytes_sent.
C19_CountersMonotonic ==
    [][/\ stats'.RecordsSent >= stats.RecordsSent
       /\ stats'.BytesSent >= stats.BytesSent
       /\ stats'.Errors >= stats.Errors
       /\ stats'.RecordsSent # stats.RecordsSent
            => /\ stats'.RecordsSent = stats.RecordsSent + 1
               /\ lastRecord'.kind = "ok"
               /\ OutputLen(lastRecord'.rec) > 0
               /\ stats'.BytesSent = stats.BytesSent + OutputLen(lastRecord'.rec)
               /\ stats'.Errors = stats.Errors
       /\ stats'.BytesSent # stats.BytesSent
            => stats'.RecordsSent = stats.RecordsSent + 1
       /\ TickFailed
            => /\ stats'.RecordsSent = stats.RecordsSent
               /\ stats'.BytesSent = stats.BytesSent]_vars

C19_Witness ==
    /\ stats.RecordsSent >= 3
    /\ stats.BytesSent >= 4
    /\ stats.Errors >= 1

\* the interval NextInterval answers for the limiter's rate without jitter
JitterFreeInterval == NextInterval(rl.callsPerMinute, 0, 0)

\* C17: with jitter 0, NextInterval returns exactly one minute divided by
\* the rate for every rate > 0 (2.5 and 0.5 included), returns one minute
\* for every rate <= 0, and returns a value for every rate.
C17_IntervalIsMinuteOverRate ==
    (rl.calls > 0 /\ rl.jitterPercent = 0)
        => /\ rl.result.kind = "ok"
           /\ IF rl.callsPerMinute.num <= 0
              THEN rl.result.d = Minute
              ELSE rl.result.d * rl.callsPerMinute.num
                       = Minute * rl.callsPerMinute.den

C11_GeneratorOrder ==
    /\ \A i, j \in 1 .. Len(pipe.wire) : i < j => pipe.wire[i] < pipe.wire[j]
    /\ \A i \in 1 .. Len(pipe.wire) : pipe.wire[i] \in 1 .. pipe.calls
    /\ Cardinality({s \in pipe.sends : s.phase = "writing"}) <= 1
    /\ Cardinality(pipe.sends) <= 1

C11_Witness ==
    /\ pipe.wire = <<1, 3>>
    /\ pipe.stopCh
    /\ \E s \in pipe.sends : s.phase = "writing" /\ s.seq = 4

\* C12: Manager.Stop asks every managed channel to stop without one waiting
\* for another, and when it has returned every managed channel's worker
\* has terminated, every managed channel is Stopped, and no channel's
\* statistics change any more.
C12_ManagerStopWaitsForAll ==
    /\ [](mgr.pc = "stopped"
            => \A i \in mgr.channels :
                 /\ mgr.ch[i].wpc = "exited"
                 /\ mgr.ch[i].stopPc = "returned"
                 /\ mgr.ch[i].state = StateStopped)
    /\ [][mgr.pc = "stopped"
            => \A i \in Endpoints : mgr'.ch[i].stats = mgr.ch[i].stats]_vars
    /\ []((mgr.pc = "stopping" /\ ProcessAlive)
            => \A i \in mgr.channels :
                 mgr.ch[i].stopPc = "idle" => ENABLED ChStopRequest(i))

C12_Witness ==
    /\ mgr.pc = "stopped"
    /\ Cardinality(mgr.channels) >= 2
    /\ \E i \in mgr.channels : mgr.ch[i].stats.RecordsSent >= 1
    /\ \E i \in mgr.channels : mgr.ch[i].stats.Errors >= 1

\* Manager.Start has returned
MgrStartReturned == mgr.startRet # "none"

\* C13: when generator.New fails for one enabled endpoint, Manager.Start
\* skips only that endpoint: every enabled endpoint whose generator can be
\* built has had its channel constructed and started when Start returns.
C13_GeneratorFailureSkipsOnlyThatEndpoint ==
    MgrStartReturned
        => \A i \in Endpoints :
             (mgr.cfg[i].Enabled /\ mgr.cfg[i].newOk)
                 => mgr.ch[i].startRet # "none"

\* C14: Manager.Start returns an error if and only if zero channels were
\* started.
C14_StartFailsIffNoChannel ==
    MgrStartReturned => (mgr.startRet = "err" <=> mgr.channels = {})

\* a step in which endpoint i fails: an error is counted on its channel or
\* its output loop panics
FailureAt(i) ==
    \/ mgr'.ch[i].stats.Errors > mgr.ch[i].stats.Errors
    \/ mgr'.ch[i].wpc = "panicked" /\ mgr.ch[i].wpc # "panicked"

\* C15: a failure on one endpoint never changes another channel's state or
\* statistics, never stops another channel's output loop and never ends
\* the process; a channel that does not leave its reconnect loop does not
\* keep another channel from its ticks.
C15_FailureStaysOnItsEndpoint ==
    /\ [][\A i \in Endpoints :
            FailureAt(i)
                => /\ \A j \in Endpoints \ {i} : mgr'.ch[j] = mgr.ch[j]
                   /\ ~mgr'.crashed]_vars
    /\ [](\A i, j \in Endpoints :
            (ProcessAlive /\ mgr.ch[i].wpc = "reconnect"
             /\ mgr.ch[j].wpc = "select" /\ mgr.ticks < MaxMgrTicks)
                => ENABLED ChTick(j))

\* C21: after any sequence of Register calls the registry holds at most one
\* format per lowercase name; Register of a format whose lowercased name is
\* present returns an error and leaves the registry unchanged, so the first
\* instance stays and Get with any casing of the name returns it.
C21_OneFormatPerLowercaseName ==
    /\ [](\A k1, k2 \in DOMAIN reg.registry :
            ToLower(k1) = ToLower(k2) => k1 = k2)
    /\ [](\A a, b \in FormatNames :
            ToLower(a) = ToLower(b)
                => Get(reg.registry, a) = Get(reg.registry, b))
    /\ [][reg'.n = reg.n + 1
            => LET present == Get(reg.registry, reg'.arg.name) # 0
               IN  /\ present <=> reg'.ret = "err"
                   /\ present => reg'.registry = reg.registry
                   /\ \A a \in FormatNames :
                        Get(reg.registry, a) # 0
                            => Get(reg'.registry, a) = Get(reg.registry, a)
                   /\ ~present
                        => \A a \in FormatNames :
                             ToLower(a) = ToLower(reg'.arg.name)
                                 => Get(reg'.registry, a) = reg'.arg.inst]_vars

C21_Witness ==
    /\ reg.n >= 2
    /\ reg.ret = "err"
    /\ reg.arg = [name |-> "VESTA", inst |-> 2]
    /\ Get(reg.registry, "Vesta") = 1
    /\ Get(reg.registry, "vesta") = 1

\* the lines of all blocks of a parse result, one after the other
RECURSIVE AllLines(_)
AllLines(records) ==
    IF records = <<>> THEN <<>>
    ELSE Head(records).Lines \o AllLines(Tail(records))

Ascending(lines) ==
    \A i, j \in 1 .. Len(lines) : i < j => lines[i].id <= lines[j].id

VestaLoaded ==
    fm.mode = ModeReplay /\ fm.proto = ProtoVesta /\ fm.out.kind = "ok"

ViperLoaded ==
    fm.mode = ModeReplay /\ fm.proto = ProtoViper /\ fm.out.kind = "ok"

\* a message that is not empty
IsSaid(m) == m.msg # ""

\* C22: whatever the order of the rows, the Vesta parser emits its blocks in
\* ascending sequence-id order with the lines of each block in ascending
\* sequence-id order; the separator occurs in a block only as its final
\* line, every block but the last one ends with it, and the last one ends
\* with it when a separator row follows its lines.
C22_VestaAscendingBlocks ==
    VestaLoaded
        => /\ Ascending(AllLines(fm.out.records))
           /\ \A n \in 1 .. Len(fm.out.records) :
                LET lines == fm.out.records[n].Lines
                IN  /\ \A i \in 1 .. Len(lines) - 1 : lines[i].msg # VestaSeparator
                    /\ n < Len(fm.out.records)
                         => lines[Len(lines)].msg = VestaSeparator
           /\ Len(fm.out.records) > 0
                => LET last == fm.out.records[Len(fm.out.records)].Lines
                       said == SelectSeq(fm.sorted, IsSaid)
                   IN  last[Len(last)].msg = VestaSeparator
                           <=> said[Len(said)].msg = VestaSeparator

C22_Witness ==
    /\ VestaLoaded
    /\ fm.rows = <<[shape |-> "ok", id |-> 2, msg |-> "data"],
                   [shape |-> "ok", id |-> 2, msg |-> VestaSeparator],
                   [shape |-> "ok", id |-> 1, msg |-> "data"]>>
    /\ Len(fm.out.records) = 2

\* the block of the sorted messages that starts at position b: the
\* positions from b up to the first END marker, or up to the message before
\* the next BEGIN marker, or up to the last message
ViperBlockEnd(sorted, b) ==
    LET stops == {i \in b + 1 .. Len(sorted) :
                    IsViperBegin(sorted[i].msg) \/ IsViperEnd(sorted[i].msg)}
    IN  IF stops = {}
        THEN Len(sorted)
        ELSE LET first == CHOOSE i \in stops : \A j \in stops : i <= j
             IN  IF IsViperEnd(sorted[first].msg) THEN first ELSE first - 1

\* the BEGIN markers of the sorted messages, in order
ViperBegins(sorted) ==
    SelectSeq([i \in 1 .. Len(sorted) |-> [pos |-> i, m |-> sorted[i]]],
              LAMBDA x : IsViperBegin(x.m.msg))

\* C23: the Viper parser emits one block per BEGIN marker: the marker is
\* its first line, the messages up to the END marker follow in order (the
\* ones empty once trimmed left out), and the END marker is its last line;
\* a block with no END marker before the end of the input (or before the
\* next BEGIN marker) is emitted too, ends with its last captured message
\* and has no END marker.
C23_ViperBlocks ==
    ViperLoaded
        => LET begins == ViperBegins(fm.sorted)
           IN  /\ Len(fm.out.records) = Len(begins)
               /\ \A n \in 1 .. Len(begins) :
                    LET b == begins[n].pos
                        e == ViperBlockEnd(fm.sorted, b)
                        lines == fm.out.records[n].Lines
                    IN  /\ lines = SelectSeq(SubSeq(fm.sorted, b, e), IsSaid)
                        /\ lines[1] = fm.sorted[b]
                        /\ IsViperEnd(lines[Len(lines)].msg)
                             <=> IsViperEnd(fm.sorted[e].msg)
                        /\ \A i \in 2 .. Len(lines) - 1 :
                             ~IsViperBegin(lines[i].msg)
                             /\ ~IsViperEnd(lines[i].msg)

C23_Witness ==
    /\ ViperLoaded
    /\ Len(fm.out.records) = 2
    /\ fm.out.records[1].Lines
         = <<[id |-> 1, msg |-> ViperCDRBegin], [id |-> 1, msg |-> ViperCDREnd]>>
    /\ fm.out.records[2].Lines = <<[id |-> 2, msg |-> ViperCDRBegin]>>

\* C24: ParseRecords of either format never fails because of a malformed
\* row: a row whose id is no integer or whose number of columns is wrong is
\* dropped, and the result is the one of the well-formed rows alone.
C24_MalformedRowsDropped ==
    (fm.mode = ModeReplay /\ fm.out.kind # "none")
        => /\ fm.out.kind = "ok"
           /\ fm.sorted \in SortSlice(ParseMessages(SelectSeq(fm.rows, IsOkRow)))
           /\ fm.out = ParseRecords(fm.proto, SelectSeq(fm.rows, IsOkRow),
                                    fm.sorted)

\* the call number of the first line of lines that matches
\* "Call <number> ... Arrives On" (0: no line matches)
FirstArrival(lines) ==
    LET hits == {i \in 1 .. Len(lines) : lines[i].msg = "arrive"}
    IN  IF hits = {} THEN 0
        ELSE lines[CHOOSE i \in hits : \A j \in hits : i <= j].id

\* C29: the id of a Vesta block is the call number of the first line of the
\* block that matches the pattern; a later matching line does not change it.
C29_VestaFirstMatchWins ==
    VestaLoaded
        => \A n \in 1 .. Len(fm.out.records) :
             fm.out.records[n].ID = FirstArrival(fm.out.records[n].Lines)

\* C30: an open Viper block is closed and emitted only by the END marker of
\* its own kind: a block that ends with an END marker has the CDR END marker
\* when a CDR BEGIN marker opened it and the AGENT END marker when an AGENT
\* BEGIN marker opened it.
C30_ViperEndOfOwnKind ==
    ViperLoaded
        => \A n \in 1 .. Len(fm.out.records) :
             LET lines == fm.out.records[n].Lines
                 last == lines[Len(lines)].msg
             IN  IsViperEnd(last)
                     => /\ lines[1].msg = ViperCDRBegin => last = ViperCDREnd
                        /\ lines[1].msg = ViperAgentBegin => last = ViperAgentEnd

\* a synthetic generator that has returned a record
Generated == fm.mode = ModeSynthetic /\ fm.calls > 0

\* the last generated record has been given to its format's ParseRecords
Reparsed == Generated /\ fm.reparsed.kind # "none"

\* C25: the lines of one generated record, fed in order to the ParseRecords
\* of the same format, come back as exactly one block, also when a Viper
\* record carries the agent block, and that block holds the generated lines
\* (the lines a parser keeps: those that are not empty).
C25_RoundTripsAsOneBlock ==
    Reparsed
    => /\ fm.reparsed.kind = "ok"
       /\ Len(fm.reparsed.records) = 1
       /\ fm.reparsed.records[1].Lines = SelectSeq(fm.ret.Lines, IsSaid)

\* the call id GenerateRecord of the format proto writes for a call number
RecordID(proto, callNumber) ==
    IF proto = ProtoVesta THEN callNumber ELSE callNumber % 100000

\* C26: every GenerateRecord call on a generation context, for either format
\* and with or without the agent block, advances the context's call number
\* by exactly one; the call number only grows, and a record is built from
\* the call number of its own call, never from that of the record before.
C26_CallNumberOncePerRecord ==
    [][fm.mode = ModeSynthetic /\ fm'.calls # fm.calls
       => /\ fm'.calls = fm.calls + 1
          /\ fm'.ctx.CallNumber = fm.ctx.CallNumber + 1
          /\ fm'.ctx.CallNumber = FirstCallNumber + fm'.calls
          /\ fm'.ret.ID = RecordID(fm.proto, fm'.ctx.CallNumber)
          /\ (fm.calls > 0 => fm'.ret.ID # fm.ret.ID)]_vars

\* two Viper records generated, the second one with its agent block
C26_Witness ==
    /\ Generated
    /\ fm.proto = ProtoViper
    /\ fm.calls = 2
    /\ fm.agent
    /\ Len(fm.ret.Lines) = Len(ViperCDRLines) + Len(ViperAgentLines)
    /\ fm.ctx.CallNumber = FirstCallNumber + 2

\* C27: the duration of a synthesized record lies within the configured
\* range [MinDurationSec, MaxDurationSec] of its endpoint (and is
\* MinDurationSec when the range is a single value).
C27_DurationWithinConfiguredRange ==
    Generated
    => /\ fm.ret.Duration >= fm.synthetic.MinDurationSec
       /\ fm.ret.Duration <= fm.synthetic.MaxDurationSec

\* the records ParseRecords, GenerateRecord or NextRecord gave to a caller
ReturnedRecords ==
    LET Range(records) == {records[i] : i \in 1 .. Len(records)}
    IN  IF fm.mode = ModeReplay
        THEN Range(fm.out.records)
             \cup (IF fm.calls > 0 THEN {fm.ret} ELSE {})
        ELSE IF fm.mode = ModeSynthetic
        THEN Range(fm.reparsed.records)
             \cup (IF fm.calls > 0 THEN {fm.ret} ELSE {})
        ELSE {}

\* C28: every record ParseRecords, GenerateRecord or Generator.NextRecord
\* returns has at least one line, whatever the input log (consecutive
\* separators, end markers with no open block, empty messages).
C28_ReturnedRecordsHaveLines ==
    \A r \in ReturnedRecords : Len(r.Lines) > 0

\* a Vesta log of a line followed by two separators: one record, of two lines, parsed and returned by NextRecord
C28_Witness ==
    /\ VestaLoaded
    /\ Len(fm.rows) = 3
    /\ fm.rows[1].msg = "data"
    /\ fm.rows[2].msg = VestaSeparator
    /\ fm.rows[3].msg = VestaSeparator
    /\ \A i \in 1 .. 3 : fm.rows[i].shape = "ok" /\ fm.rows[i].id = 1
    /\ fm.sorted[1].msg = "data"
    /\ Len(fm.out.records) = 1
    /\ fm.calls = 1
    /\ Len(fm.ret.Lines) = 2

\* the position i of the sorted messages lies in an open block: the last
\* marker before it is a BEGIN marker
ViperOpenAt(sorted, i) ==
    LET markers == {j \in 1 .. i - 1 :
                      IsViperBegin(sorted[j].msg) \/ IsViperEnd(sorted[j].msg)}
    IN  /\ markers # {}
        /\ IsViperBegin(sorted[CHOOSE j \in markers :
                                  \A k \in markers : k <= j].msg)

\* the sorted messages the Viper parser has to keep: the BEGIN markers, and
\* the messages in an open block that are not empty
ViperKept(sorted) ==
    LET at == [i \in 1 .. Len(sorted) |-> [pos |-> i, m |-> sorted[i]]]
        kept == SelectSeq(at, LAMBDA x :
                              \/ IsViperBegin(x.m.msg)
                              \/ ViperOpenAt(sorted, x.pos) /\ IsSaid(x.m))
    IN  [n \in 1 .. Len(kept) |-> kept[n].m]

\* C31: in the Viper parser a BEGIN marker of either kind that arrives
\* while a block is open emits the open block as it stands, without an END
\* marker, and starts a new block with the marker: the lines of all blocks
\* together are the kept messages in their order (none lost, none moved to
\* another block, the ones outside any open block dropped), and a BEGIN
\* marker occurs in a block only as its first line.
C31_BeginFlushesOpenBlock ==
    ViperLoaded
        => LET begins == ViperBegins(fm.sorted)
           IN  /\ AllLines(fm.out.records) = ViperKept(fm.sorted)
               /\ \A n \in 1 .. Len(fm.out.records) :
                    LET lines == fm.out.records[n].Lines
                    IN  \A i \in 1 .. Len(lines) :
                          IsViperBegin(lines[i].msg) <=> i = 1
               /\ \A n \in 1 .. Len(begins) :
                    ViperOpenAt(fm.sorted, begins[n].pos)
                        => /\ n > 1
                           /\ n <= Len(fm.out.records)
                           /\ fm.out.records[n].Lines[1] = begins[n].m
                           /\ LET before == fm.out.records[n - 1].Lines
                              IN  /\ before
                                       = SelectSeq(SubSeq(fm.sorted,
                                                          begins[n - 1].pos,
                                                          begins[n].pos - 1),
                                                   IsSaid)
                                  /\ ~IsViperEnd(before[Len(before)].msg)

\* a CDR block of two lines is open when an AGENT BEGIN marker arrives
C31_Witness ==
    /\ ViperLoaded
    /\ Len(fm.sorted) = 3
    /\ fm.sorted[1].msg = ViperCDRBegin
    /\ fm.sorted[2].msg = "body"
    /\ fm.sorted[3].msg = ViperAgentBegin
    /\ Len(fm.out.records) = 2
    /\ fm.out.records[1].Lines = SubSeq(fm.sorted, 1, 2)
    /\ fm.out.records[2].Lines = SubSeq(fm.sorted, 3, 3)

\* the worker goroutine is running
WorkerRunning == wpc \in {"select", "rc_check", "rc_sleep"}

\* C32: once the context given to Start is cancelled the worker goroutine
\* terminates, wherever it is, the reconnect procedure included, and
\* without a call of Stop.
C32_CancelTerminatesWorker ==
    (ctxDone /\ WorkerRunning) ~> (~WorkerRunning \/ stopCh)

\* C34: as long as the channel's state stays Reconnecting the worker asks
\* the generator for no record and writes nothing: the replay cursor, the
\* call counter, RecordsSent and BytesSent do not change, a requested stop
\* or not.
C34_ReconnectingProducesNothing ==
    [][(state = StateReconnecting /\ state' = StateReconnecting)
       => /\ gen' = gen
          /\ genCalls' = genCalls
          /\ stats'.RecordsSent = stats.RecordsSent
          /\ stats'.BytesSent = stats.BytesSent]_vars

\* C35: once Stop is requested no backoff wait begins any more, so the only
\* reopen attempt that can follow is the one whose wait was under way (an
\* attempt is the step that ends a wait), and the next check of the
\* reconnect loop makes reconnect return.
C35_AtMostOneAttemptAfterStop ==
    [][stopCh
       => /\ wpc' = "rc_sleep" => wpc = "rc_sleep"
          /\ (wpc = "rc_sleep" /\ wpc' # wpc) => wpc' \in {"select", "rc_check"}
          /\ (wpc = "rc_check" /\ wpc' # wpc) => (wpc' = "select" /\ delay' = 0)]_vars

\* Stop was requested during a wait of reconnect, and the attempt that ended
\* the wait reopened the port
C35_Witness ==
    /\ stopCh
    /\ stopAt = StateReconnecting
    /\ prevState = StateReconnecting
    /\ state = StateRunning
    /\ wpc = "select"
    /\ port = "open"

\* C37: a tick whose write succeeds and whose flush fails is no production
\* error: the record is counted in RecordsSent and BytesSent, Errors and
\* LastError stay as they are, and the worker does not enter reconnect on
\* that tick, the transport reporting closed or not.
C37_FlushFailureIsNoError ==
    [][(TickStep /\ flushErr')
       => /\ lastRecord'.kind = "ok"
          /\ stats' = [stats EXCEPT !.RecordsSent = @ + 1,
                                    !.BytesSent = @ + OutputLen(lastRecord'.rec)]
          /\ wpc' = "select"
          /\ state' = state
          /\ state' # StateReconnecting]_vars

\* the flush of the first record failed on a transport that reports closed:
\* the record is counted and the worker is at its select
C37_Witness ==
    /\ flushErr
    /\ genCalls = 1
    /\ tickC = 0
    /\ ticksFired = 1
    /\ port = "closed"
    /\ stats.RecordsSent = 1
    /\ stats.Errors = 0
    /\ state = StateRunning
    /\ wpc = "select"

\* C36: a record whose write fails is not written again: every
\* sendNextRecord call obtains its record from the generator, which has
\* moved on by one call, and the only record a call writes is the one it
\* obtained; so the records that reach the transport are a subsequence, in
\* order, of the records the generator produced (its calls 1, 2, 3, ...).
C36_FailedWriteNotRetried ==
    [][/\ pipe'.calls \in {pipe.calls, pipe.calls + 1}
       /\ \A s \in pipe'.sends :
            s.phase = "obtained"
                => \/ s \in pipe.sends
                   \/ s.seq = pipe.calls + 1 /\ pipe'.calls = pipe.calls + 1
       /\ pipe'.wire # pipe.wire
            => \E s \in pipe.sends :
                  /\ s.phase = "writing"
                  /\ pipe'.wire = Append(pipe.wire, s.seq)
                  /\ \A t \in pipe'.sends : t.seq # s.seq
       /\ \A i, j \in 1 .. Len(pipe'.wire) :
            i < j => pipe'.wire[i] < pipe'.wire[j]
       /\ \A i \in 1 .. Len(pipe'.wire) : pipe'.wire[i] \in 1 .. pipe'.calls]_vars

\* the write of the first record failed and the second record was written
C36_Witness ==
    /\ pipe.calls = 2
    /\ pipe.wire = <<2>>
    /\ pipe.sends = {}

\* C38: the channels of a snapshot of the Manager, and the channels
\* ChannelCount counts, are the channels whose Start succeeded: a channel
\* whose Start failed is not among them, and the state a snapshot shows is
\* Running, Reconnecting or Stopped.
C38_ManagedChannelsWereOpened ==
    LET states == GetChannelStates(mgr)
        opened == {i \in Endpoints : mgr.ch[i].startRet = "ok"}
    IN  /\ DOMAIN states = opened
        /\ ChannelCount(mgr) = Cardinality(opened)
        /\ \A i \in DOMAIN states :
             /\ mgr.ch[i].port # "nil"
             /\ states[i].State
                  \in {StateRunning, StateReconnecting, StateStopped}

\* Manager.Start has returned with one channel whose Start failed and one
\* managed channel, which is reconnecting
C38_Witness ==
    /\ mgr.pc = "running"
    /\ ChannelCount(mgr) = 1
    /\ \E i \in Endpoints :
         /\ mgr.ch[i].startRet = "err"
         /\ mgr.ch[i].state = StateError
    /\ \E i \in DOMAIN GetChannelStates(mgr) :
         GetChannelStates(mgr)[i].State = StateReconnecting

\* a step of a caller of GetStats
ReaderStep == snap'.idx # snap.idx

\* C33: a snapshot the Manager returns is consistent per channel while the
\* workers produce: the statistics it holds for a channel are the ones the
\* channel had at a release of its statsMutex, so RecordsSent and BytesSent
\* are never seen with one of them updated for a send and the other not;
\* it is a copy, which the workers' later updates do not alter; and taking
\* it modifies no channel's statistics.
C33_SnapshotsConsistent ==
    /\ [](/\ \A i \in 1 .. Len(snap.out) : snap.out[i] \in snap.seen[i]
          /\ \A i \in 1 .. Len(snap.returned) :
               snap.returned[i] \in snap.seen[i])
    /\ [][IF ReaderStep
          THEN /\ snap'.stats = snap.stats
               /\ snap'.mu = snap.mu
               /\ snap'.w = snap.w
          ELSE /\ snap'.returned = snap.returned
               /\ snap'.out = snap.out]_vars

\* a snapshot was returned, it holds a handled error, and a worker is now
\* between its RecordsSent++ and its BytesSent += n for a later send
C33_Witness ==
    /\ Len(snap.returned) = NumPorts
    /\ \E i \in Endpoints :
         /\ snap.w[i] = "send_counted"
         /\ snap.returned[i].RecordsSent + 1 = snap.stats[i].RecordsSent
    /\ \E i \in Endpoints : snap.returned[i].Errors = 1

\* C39: Stop is idempotent: a call of Channel.Stop made after Stop has
\* returned completes without failure, and the channel is Stopped after it.
C39_StopIdempotent ==
    again.calls > 0 => (again.ret = "ok" /\ Alive /\ state = StateStopped)

\* the first n elements of two sequences are the same
SamePrefix(a, b) ==
    \A n \in 1 .. Min(Len(a), Len(b)) : a[n] = b[n]

\* C40: every synthetic generator seeds its private source with the same
\* constant, so two generators, whenever they are built, make the same
\* sequence of random draws; of the same format, their i-th records carry
\* the same random choices for every i; and a draw on one generator leaves
\* the other generator as it is.
C40_SameSeedSameDraws ==
    /\ [](/\ twin.g[1].seed = twin.g[2].seed
          /\ twin.g[1].seed = 0
          /\ SamePrefix(twin.g[1].drawn, twin.g[2].drawn)
          /\ twin.g[1].proto = twin.g[2].proto
               => SamePrefix(twin.g[1].out, twin.g[2].out))
    /\ [][\A i \in {1, 2} :
            twin'.g[i] # twin.g[i] => twin'.g[3 - i] = twin.g[3 - i]]_vars

\* two Viper generators built at different times have returned two records
\* each, with agent blocks
C40_Witness ==
    /\ twin.g[1].now # twin.g[2].now
    /\ twin.g[1].proto = ProtoViper
    /\ twin.g[2].proto = ProtoViper
    /\ Len(twin.g[1].out) = 2
    /\ Len(twin.g[2].out) = 2
    /\ twin.g[1].out[1].Duration # twin.g[1].out[2].Duration
    /\ Len(twin.g[2].out[2].Lines) = Len(ViperCDRLines) + Len(ViperAgentLines)

====
